---- MODULE Spec2Model ----
(***************************************************************************)
(* State-machine model of the orchestrator (src/Orchestrator/orch/orch.py):*)
(* the peripheral registry (config['peripherals']) and the route table     *)
(* (routes), their backing files orch.cf and routes.cf, the three locks,   *)
(* and the threads that operate on them: connection workers running        *)
(* process_command, the discovery scanner, the port synchronizer and the   *)
(* operator at the curses menu.                                            *)
(*                                                                         *)
(* Strings are modelled as sequences of atoms (a name A_2 is <<"A","2">>,  *)
(* a port token 71 is <<"7","1">>), so that startswith, the _N suffixing   *)
(* and int() are computed rather than assumed.                             *)
(***************************************************************************)
EXTENDS Integers, Sequences, FiniteSets, TLC

(* ------------------------------ bounds -------------------------------- *)

\* Registry entries the model lets the registry grow to.
MaxPeripherals == 3
\* Routes the model lets the route table grow to.
MaxRoutes == 2
\* Readings of time.time() in one run; every reading advances the clock.
MaxClock == 3
\* Threads that are inside an operation at the same time.
MaxActive == 2
\* Whole sleep intervals a loop's pass or sleep is followed for.
MaxElapsed == 2

(* ------------------------- program constants -------------------------- *)

\* A dict key that is not there ('data_port' of a discovered peripheral).
NoPort == 0
\* 'last_used': None of a route that never forwarded.
Never == 0

\* `import re` is missing from the module's imports, so the name re is
\* unbound when process_response reaches re.compile.
ReImported == FALSE

\* config['data_port_range'], as the parts its text splits into at ','.
\* The shipped default is '6001-6099'; the model runs with a 2-port range.
DataPortRangeCfg == << [kind |-> "range", lo |-> 61, hi |-> 62] >>

(* ------------------------------ strings ------------------------------- *)

IsPrefix(p, s) == Len(p) <= Len(s) /\ SubSeq(s, 1, Len(p)) = p

\* str.startswith for a prefix that ends at an atom boundary.
StartsWith(s, p) == IsPrefix(p, s)

DigitVal(c) ==
  CASE c = "0" -> 0 [] c = "1" -> 1 [] c = "2" -> 2 [] c = "3" -> 3
    [] c = "4" -> 4 [] c = "5" -> 5 [] c = "6" -> 6 [] c = "7" -> 7
    [] c = "8" -> 8 [] c = "9" -> 9 [] OTHER -> -1

IsDigit(c) == DigitVal(c) >= 0

\* int(text) raises ValueError unless the text is a decimal literal.
IsIntText(t) == Len(t) > 0 /\ \A i \in 1..Len(t) : IsDigit(t[i])

RECURSIVE IntOfText(_)
IntOfText(t) ==
  IF Len(t) = 0 THEN 0
  ELSE 10 * IntOfText(SubSeq(t, 1, Len(t) - 1)) + DigitVal(t[Len(t)])

\* str(n) for the small numbers the name suffix uses.
StrOfInt(n) ==
  CASE n = 0 -> "0" [] n = 1 -> "1" [] n = 2 -> "2" [] n = 3 -> "3"
    [] n = 4 -> "4" [] n = 5 -> "5" [] n = 6 -> "6" [] n = 7 -> "7"
    [] n = 8 -> "8" [] OTHER -> "9"

(* ------------------------------- ranges ------------------------------- *)

RECURSIVE RangeSeq(_, _)
RangeSeq(lo, hi) == IF lo > hi THEN <<>> ELSE <<lo>> \o RangeSeq(lo + 1, hi)

RECURSIVE parse_port_range(_)
parse_port_range(parts) ==
  IF parts = <<>> THEN <<>>
  ELSE LET part == Head(parts)
           here == CASE part.kind = "range" -> RangeSeq(part.lo, part.hi)
                     [] part.kind = "single" -> <<part.lo>>
                     [] OTHER -> <<>>
       IN here \o parse_port_range(Tail(parts))

(* ----------------------------- data model ----------------------------- *)

\* A peripheral dict: name, uuid, config, port, last_seen and, once the
\* peripheral has registered, data_port.
Peripheral(name, uuid, cfg, port, seen, dport) ==
  [name |-> name, uuid |-> uuid, config |-> cfg, port |-> port,
   last_seen |-> seen, data_port |-> dport]

\* A route dict as add_route builds it.
Route(name, inc, outg, incPort, outPort, used) ==
  [name |-> name, incoming |-> inc, outgoing |-> outg,
   incoming_port |-> incPort, outgoing_port |-> outPort, last_used |-> used]

NoPeripheral == Peripheral(<<>>, <<>>, <<>>, NoPort, Never, NoPort)
NoRoute == Route(<<>>, <<>>, <<>>, NoPort, NoPort, Never)

\* ^[a-fA-F0-9-]{36}$ on a uuid text: the model writes a well-shaped uuid as
\* the one atom "u<k>"; any other text does not match.
WellShapedUuids == { <<"u1">>, <<"u2">>, <<"u3">> }
uuid_pattern(text) == text \in WellShapedUuids

SeqToSet(s) == { s[i] : i \in 1..Len(s) }

\* next((x for x in list if ...), None) as the index of the first hit; 0
\* stands for None.
FirstOf(hits) == IF hits = {} THEN 0 ELSE CHOOSE i \in hits : \A j \in hits : i <= j

\* next((p for p in config['peripherals'] if p['uuid'] == u), None)
FirstWithUuid(ps, u) == FirstOf({ i \in 1..Len(ps) : ps[i].uuid = u })

\* next((x for x in list if x['name'] == n), None), on peripherals and routes.
FirstNamed(s, n) == FirstOf({ i \in 1..Len(s) : s[i].name = n })

\* A removal that removes nothing.
RemoveAt_Nothing(s, k) == s

RemoveAt(s, k) == SubSeq(s, 1, k - 1) \o SubSeq(s, k + 1, Len(s))

(* -------------------------------- JSON -------------------------------- *)

\* A JSON object is the sequence of its <<key, value>> members in insertion
\* order; a value is <<"str", text>>, <<"num", n>> or <<"null">>.
JStr(t) == <<"str", t>>
JNum(n) == <<"num", n>>
JNull == <<"null">>

DumpPeripheral(p) ==
  << <<"name", JStr(p.name)>>, <<"uuid", JStr(p.uuid)>>,
     <<"config", JStr(p.config)>>, <<"port", JNum(p.port)>>,
     <<"last_seen", JNum(p.last_seen)>> >>
  \o (IF p.data_port = NoPort THEN <<>>
      ELSE << <<"data_port", JNum(p.data_port)>> >>)

DumpRoute(r) ==
  << <<"name", JStr(r.name)>>, <<"incoming", JStr(r.incoming)>>,
     <<"outgoing", JStr(r.outgoing)>>,
     <<"incoming_port", JNum(r.incoming_port)>>,
     <<"outgoing_port", JNum(r.outgoing_port)>>,
     <<"last_used", IF r.last_used = Never THEN JNull ELSE JNum(r.last_used)>> >>

\* The value a loaded dict holds under a key (the last member wins), or the
\* given default when the key is not there; null loads as None.
Member(obj, key, default) ==
  LET at == { i \in 1..Len(obj) : obj[i][1] = key }
  IN IF at = {} THEN default
     ELSE LET v == obj[CHOOSE i \in at : \A j \in at : j <= i][2]
          IN IF v = JNull THEN default ELSE v[2]

LoadPeripheral(obj) ==
  Peripheral(Member(obj, "name", <<>>), Member(obj, "uuid", <<>>),
             Member(obj, "config", <<>>), Member(obj, "port", NoPort),
             Member(obj, "last_seen", Never), Member(obj, "data_port", NoPort))

\* A load that forgets when a route was last used.
LoadRoute_Unstamped(obj) ==
  Route(Member(obj, "name", <<>>), Member(obj, "incoming", <<>>),
        Member(obj, "outgoing", <<>>), Member(obj, "incoming_port", NoPort),
        Member(obj, "outgoing_port", NoPort), Never)

LoadRoute(obj) ==
  Route(Member(obj, "name", <<>>), Member(obj, "incoming", <<>>),
        Member(obj, "outgoing", <<>>), Member(obj, "incoming_port", NoPort),
        Member(obj, "outgoing_port", NoPort), Member(obj, "last_used", Never))

\* json.dump / json.load of a list of dicts.
JsonDumpPeripherals(ps) == [i \in 1..Len(ps) |-> DumpPeripheral(ps[i])]
JsonLoadPeripherals(doc) == [i \in 1..Len(doc) |-> LoadPeripheral(doc[i])]
JsonDumpRoutes(rs) == [i \in 1..Len(rs) |-> DumpRoute(rs[i])]
JsonLoadRoutes(doc) == [i \in 1..Len(doc) |-> LoadRoute(doc[i])]

\* A file: whether it exists (os.path.exists) and the document it holds.
NoFile == [exists |-> FALSE, doc |-> <<>>]
FileOf(doc) == [exists |-> TRUE, doc |-> doc]

(* ------------------------------ threads ------------------------------- *)

\* handle_client_connection threads, one per accepted control connection.
Workers == { "w1", "w2" }
\* The main thread, at the curses menu.
Operator == "op"
\* The periodic_scan thread.
Scanner == "scan"
\* The port_sync thread.
Syncer == "sync"
\* The handle_data_connection thread of the data connection.
DataWorker == "data"
Threads == Workers \cup { Operator, Scanner, Syncer, DataWorker }

\* threading.Lock(): the thread that holds it, or Free.
Free == "free"

(* ------------------------------- inputs ------------------------------- *)

\* The command lines the model's control connections deliver, each as its
\* space-separated tokens.
RegisterCommands ==
  { << <<"/register">>, <<"A">>, <<"u1">>, <<"7", "1">> >>,
    << <<"/register">>, <<"A">>, <<"u1">>, <<"7", "2">> >>,
    << <<"/register">>, <<"A">>, <<"u2">>, <<"7", "1">> >>,
    << <<"/register">>, <<"B">>, <<"u3">>, <<"7", "2">> >>,
    << <<"/register">>, <<"B">>, <<"u3">>, <<"a", "b", "c">> >>,
    << <<"/register">>, <<"A">>, <<"u1">> >>,
    << <<"/register">>, <<"A">>, <<"u1">>, <<"7", "1">>, <<"7", "2">> >> }

DataCommands ==
  { << <<"/data">>, <<"u1">>, <<"hello">> >>,
    << <<"/data">>, <<"u3">>, <<"hello">>, <<"world">> >>,
    << <<"/data">>, <<"u1">> >> }

RoutesCommands ==
  { << <<"/routes">>, <<"add">>, <<"R1">>, <<"A">>, <<"B">> >>,
    << <<"/routes">>, <<"add">>, <<"R1">>, <<"B">>, <<"A">> >>,
    << <<"/routes">>, <<"add">>, <<"R2">>, <<"A">>, <<"A">> >>,
    << <<"/routes">>, <<"add">>, <<"R1">>, <<"A">> >>,
    << <<"/routes">>, <<"remove">>, <<"R1">> >>,
    << <<"/routes">>, <<"remove">>, <<"R2">> >>,
    << <<"/routes">>, <<"remove">> >>,
    << <<"/routes">>, <<"info">> >> }

PlainCommands ==
  { << <<"/list">> >>, << <<"/reset">> >>, << <<"hello">> >> }

Commands == RegisterCommands \cup DataCommands \cup RoutesCommands \cup PlainCommands

(* ------------------------------- state -------------------------------- *)

VARIABLES
  peripherals,   \* config['peripherals']
  cfgFile,       \* orch.cf (its 'peripherals' member)
  routes,        \* the global routes
  routesFile,    \* routes.cf
  pLock,         \* peripherals_lock
  rLock,         \* routes_lock
  cLock,         \* config_lock
  now,           \* the last reading of time.time()
  pc,            \* where each thread is
  cmd,           \* the command line a worker is processing
  loc,           \* each thread's local variables
  pref,          \* each thread's references to peripheral dicts
  rref,          \* each thread's references to route dicts
  out,           \* what the operation in progress has emitted so far
  in_command_mode,  \* the Event in_command_mode is set
  dconn,         \* the data connection and its handle_data_connection thread
  sched          \* where the periodic_scan and port_sync loops are

vars == << peripherals, cfgFile, routes, routesFile, pLock, rLock, cLock, now,
           pc, cmd, loc, pref, rref, out, in_command_mode, dconn, sched >>

\* A reference to a dict. While the dict is an element of the global list,
\* idx is its position there; once the list has dropped it (or has been
\* replaced), idx is 0 and snap is the dict, which only this thread sees.
NonePRef == [some |-> FALSE, idx |-> 0, snap |-> NoPeripheral]
PRef(i) == [some |-> i > 0, idx |-> i, snap |-> NoPeripheral]
RRef(i) == [some |-> i > 0, idx |-> i, snap |-> NoRoute]
Deref(list, ref) == IF ref.idx > 0 THEN list[ref.idx] ELSE ref.snap

Loc0 == [ret |-> "", dport |-> NoPort, i |-> 0, sel |-> <<>>, text |-> <<>>,
         rows |-> <<>>, source |-> ""]
\* resp: the responses produced so far; chans: for each of them, where it was
\* written.
\* cont: the value process_command returns (False asks the caller to stop).
\* signal: update_event.set() was called.
Out0 == [resp |-> <<>>, logs |-> <<>>, conns |-> <<>>, chans |-> <<>>, cont |-> TRUE,
         signal |-> FALSE]

\* The data connection: whether it is open, the bytes the peer has sent in
\* all (sent) and those not yet received (stream), whether the peer has
\* closed its end, handle_data_connection's buffer and peripheral_uuid
\* (<<>> for None), the handle_incoming_data calls made so far, and how the
\* last conn.recv ended ("data", "timeout", "eof", "error", or "decode" when
\* the bytes it returned did not decode).
DConn0 == [open |-> FALSE, sent |-> <<>>, stream |-> <<>>, closed |-> FALSE,
           buffer |-> <<>>, uuid |-> <<>>, forwards |-> <<>>, last |-> "none"]

\* Where a loop of the form `while True: pass(); time.sleep(interval)` is:
\* in its pass or in its sleep (at), for how many whole intervals (t), how
\* many of its passes are in progress (running), and how far the pass has
\* come (i).
Phase0 == [at |-> "sleep", t |-> 1, running |-> 0, i |-> 0]
Loops == { "scan", "sync" }
Sched0 == [k \in Loops |-> Phase0]

Respond(o, r, ch) == [o EXCEPT !.resp = Append(@, r), !.chans = Append(@, ch)]
Log(o, l) == [o EXCEPT !.logs = Append(@, l)]

Init ==
  /\ peripherals = <<>>
  /\ cfgFile = FileOf(<<>>)
  /\ routes = <<>>
  /\ routesFile = FileOf(<<>>)
  /\ pLock = Free /\ rLock = Free /\ cLock = Free
  /\ now = 0
  /\ pc = [t \in Threads |-> "idle"]
  /\ cmd = [t \in Threads |-> <<>>]
  /\ loc = [t \in Threads |-> Loc0]
  /\ pref = [t \in Threads |-> <<>>]
  /\ rref = [t \in Threads |-> <<>>]
  /\ out = [t \in Threads |-> Out0]
  /\ in_command_mode = FALSE
  /\ dconn = DConn0
  /\ sched = Sched0

(* ------------------------- shared subroutines ------------------------- *)

Goto(t, p) == pc' = [pc EXCEPT ![t] = p]

\* if not in_command_mode.is_set(): update_event.set()
Signal(o) == [o EXCEPT !.signal = @ \/ ~in_command_mode]

\* log_message, as far as the operation in progress is concerned: the line
\* is appended to the activity log and the display is signalled.
Emit(t, l) == out' = [out EXCEPT ![t] = Signal(Log(@, l))]

\* The state-changed signal on its own.
Raise(t) == out' = [out EXCEPT ![t] = Signal(@)]

\* conn=None: process_command was called without a connection.
NoConn == "none"

\* The conn argument of the command a thread is processing: a connection
\* worker has its socket, named after the worker; no other thread has one.
Conn(t) == IF t \in Workers THEN t ELSE NoConn

\* send_response(message, source, conn): where the message is written.
send_response(source, conn) ==
  IF source = "console" THEN "console"
  ELSE IF source = "port" /\ conn # NoConn THEN conn
  ELSE IF source = "curses" THEN "display"
  ELSE "nowhere"

\* if conn: conn.sendall(...)
sendall(conn) == IF conn # NoConn THEN conn ELSE "nowhere"

\* send_response(message, source, conn) in a handler of process_command.
Send(t, r) ==
  out' = [out EXCEPT ![t] = Respond(@, r, send_response(loc[t].source, Conn(t)))]

\* display_message(title, message) of a menu.
Display(t, r) == out' = [out EXCEPT ![t] = Respond(@, r, "display")]

Text(m) == [kind |-> "text", body |-> m]

\* write_config: with peripherals_lock: ...
wc_lock(t) ==
  /\ pc[t] = "wc_lock"
  /\ pLock = Free
  /\ pLock' = t
  /\ Goto(t, "wc_write")
  /\ UNCHANGED << peripherals, cfgFile, routes, routesFile, rLock, cLock, now,
                  cmd, loc, pref, rref, out, in_command_mode,
                  dconn, sched >>

\* ... with config_lock: json.dump(config, f); both locks are released.
wc_write(t) ==
  /\ pc[t] = "wc_write"
  /\ cLock = Free
  /\ cfgFile' = FileOf(JsonDumpPeripherals(peripherals))
  /\ pLock' = Free
  /\ Goto(t, loc[t].ret)
  /\ UNCHANGED << peripherals, routes, routesFile, rLock, cLock, now,
                  cmd, loc, pref, rref, out, in_command_mode,
                  dconn, sched >>

\* write_routes: with routes_lock: json.dump(routes, f).
write_routes(t) ==
  /\ pc[t] = "wr"
  /\ rLock = Free
  /\ routesFile' = FileOf(JsonDumpRoutes(routes))
  /\ Goto(t, loc[t].ret)
  /\ UNCHANGED << peripherals, cfgFile, routes, pLock, rLock, cLock, now,
                  cmd, loc, pref, rref, out, in_command_mode,
                  dconn, sched >>

(* ---------------------------- registration ---------------------------- *)

\* An allocator that counts the peripheral being registered.
AssignedDataPort_OffByOne(ps) ==
  LET available_data_ports == parse_port_range(DataPortRangeCfg)
  IN available_data_ports[((Len(ps) + 1) % Len(available_data_ports)) + 1]

\* An allocator that takes the first port of the range no peripheral holds,
\* and falls back to the rotation when every port is held.
AssignedDataPort_FirstFree(ps) ==
  LET available_data_ports == parse_port_range(DataPortRangeCfg)
      free == { k \in 1..Len(available_data_ports) :
                  \A i \in 1..Len(ps) : ps[i].data_port # available_data_ports[k] }
  IN IF free # {} THEN available_data_ports[FirstOf(free)]
     ELSE available_data_ports[(Len(ps) % Len(available_data_ports)) + 1]

\* available_data_ports[len(config['peripherals']) % len(available_data_ports)]
AssignedDataPort(ps) ==
  LET available_data_ports == parse_port_range(DataPortRangeCfg)
  IN available_data_ports[(Len(ps) % Len(available_data_ports)) + 1]

\* An add-or-update without the lookup by uuid.
RegisterUpsert_AlwaysAppend(ps, name, uuid, port, seen) ==
  Append(ps, Peripheral(name, uuid, <<>>, port, seen, AssignedDataPort(ps)))

\* An update that leaves the data port of a known peripheral as it was.
RegisterUpsert_KeepDataPort(ps, name, uuid, port, seen) ==
  LET existing == FirstWithUuid(ps, uuid)
  IN IF existing # 0
     THEN [ps EXCEPT ![existing] =
             Peripheral(name, uuid, <<>>, port, seen, ps[existing].data_port)]
     ELSE Append(ps, Peripheral(name, uuid, <<>>, port, seen, AssignedDataPort(ps)))

\* An update that allots a known peripheral the port of its own position.
RegisterUpsert_PortOfPosition(ps, name, uuid, port, seen) ==
  LET existing == FirstWithUuid(ps, uuid)
      at == IF existing # 0 THEN SubSeq(ps, 1, existing - 1) ELSE ps
      peripheral == Peripheral(name, uuid, <<>>, port, seen, AssignedDataPort(at))
  IN IF existing # 0 THEN [ps EXCEPT ![existing] = peripheral]
     ELSE Append(ps, peripheral)

\* The registry after register_peripheral's add-or-update.
RegisterUpsert(ps, name, uuid, port, seen) ==
  LET peripheral == Peripheral(name, uuid, <<>>, port, seen, AssignedDataPort(ps))
      existing == FirstWithUuid(ps, uuid)
  IN IF existing # 0 THEN [ps EXCEPT ![existing] = peripheral]
     ELSE Append(ps, peripheral)

register_peripheral(t) ==
  /\ pc[t] = "reg"
  /\ pLock = Free
  /\ now < MaxClock
  /\ LET name == cmd[t][2]
         peripheral_uuid == cmd[t][3]
         port == IntOfText(cmd[t][4])
     IN /\ peripherals' = RegisterUpsert(peripherals, name, peripheral_uuid, port, now + 1)
        /\ Len(peripherals') <= MaxPeripherals
        /\ loc' = [loc EXCEPT ![t].dport = AssignedDataPort(peripherals),
                              ![t].ret = "reg_ack"]
  /\ now' = now + 1
  /\ Emit(t, "registered")
  /\ Goto(t, "wc_lock")
  /\ UNCHANGED << cfgFile, routes, routesFile, pLock, rLock, cLock, cmd, pref, rref, in_command_mode,
                  dconn, sched >>

\* conn.sendall(f"/ack {assigned_data_port}\n")
register_ack(t) ==
  /\ pc[t] = "reg_ack"
  /\ out' = [out EXCEPT ![t] = Respond(@, [kind |-> "ack", body |-> loc[t].dport],
                                       sendall(Conn(t)))]
  /\ Goto(t, "done")
  /\ UNCHANGED << peripherals, cfgFile, routes, routesFile, pLock, rLock, cLock,
                  now, cmd, loc, pref, rref, in_command_mode,
                  dconn, sched >>

(* ------------------------- dict references ---------------------------- *)

\* The reference after the list it points into has dropped its dict.
Detached(list, ref) ==
  IF ref.idx > 0 THEN [ref EXCEPT !.idx = 0, !.snap = list[ref.idx]] ELSE ref

\* The reference after the list's k-th element has been removed.
AfterRemoveAt(list, ref, k) ==
  IF ref.idx = k THEN Detached(list, ref)
  ELSE IF ref.idx > k THEN [ref EXCEPT !.idx = @ - 1]
  ELSE ref

DetachAll(refs, list) ==
  [x \in Threads |-> [j \in 1..Len(refs[x]) |-> Detached(list, refs[x][j])]]

(* ------------------------------- routes ------------------------------- *)

\* add_route, first part: both names are looked up under peripherals_lock.
add_route_lookup(t) ==
  /\ pc[t] = "ar_lookup"
  /\ pLock = Free
  /\ LET incoming == FirstNamed(peripherals, cmd[t][4])
         outgoing == FirstNamed(peripherals, cmd[t][5])
     IN /\ pref' = [pref EXCEPT ![t] = << PRef(incoming), PRef(outgoing) >>]
        /\ IF incoming = 0
           THEN Send(t, Text("Incoming peripheral not found.")) /\ Goto(t, "done")
           ELSE IF outgoing = 0
           THEN Send(t, Text("Outgoing peripheral not found.")) /\ Goto(t, "done")
           ELSE Goto(t, "ar_add") /\ out' = out
  /\ UNCHANGED << peripherals, cfgFile, routes, routesFile, pLock, rLock, cLock,
                  now, cmd, loc, rref, in_command_mode,
                  dconn, sched >>

\* A duplicate test that never finds the route.
RouteExists_Never(rs, route_name) == FALSE

\* A duplicate test that looks in routes.cf instead of the table in memory.
RouteExists_OnDisk(rs, route_name) ==
  /\ routesFile.exists
  /\ \E i \in 1..Len(routesFile.doc) : LoadRoute(routesFile.doc[i]).name = route_name

RouteExists(rs, route_name) == \E i \in 1..Len(rs) : rs[i].name = route_name

\* A route with source and destination exchanged.
NewRoute_Swapped(route_name, incoming, outgoing) ==
  Route(route_name, outgoing.uuid, incoming.uuid, outgoing.port, incoming.port, Never)

\* The route add_route appends.
NewRoute(route_name, incoming, outgoing) ==
  Route(route_name, incoming.uuid, outgoing.uuid, incoming.port, outgoing.port, Never)

\* add_route, second part, under routes_lock.
add_route_append(t) ==
  /\ pc[t] = "ar_add"
  /\ rLock = Free
  /\ IF RouteExists(routes, cmd[t][3])
     THEN /\ Send(t, Text("Route already exists."))
          /\ Goto(t, "done")
          /\ UNCHANGED << routes, loc >>
     ELSE /\ Len(routes) < MaxRoutes
          /\ routes' = Append(routes, NewRoute(cmd[t][3],
                                               Deref(peripherals, pref[t][1]),
                                               Deref(peripherals, pref[t][2])))
          /\ loc' = [loc EXCEPT ![t].ret = "ar_ok"]
          /\ Goto(t, "wr")
          /\ out' = out
  /\ UNCHANGED << peripherals, cfgFile, routesFile, pLock, rLock, cLock, now,
                  cmd, pref, rref, in_command_mode,
                  dconn, sched >>

add_route_ok(t) ==
  /\ pc[t] = "ar_ok"
  /\ Send(t, Text("Route added successfully."))
  /\ Goto(t, "done")
  /\ UNCHANGED << peripherals, cfgFile, routes, routesFile, pLock, rLock, cLock,
                  now, cmd, loc, pref, rref, in_command_mode,
                  dconn, sched >>

\* remove_route(route_name), under routes_lock; the route name is in loc.sel.
remove_route(t) ==
  /\ pc[t] = "rr"
  /\ rLock = Free
  /\ LET route == FirstNamed(routes, loc[t].sel)
     IN IF route = 0
        THEN /\ Send(t, Text("Route not found."))
             /\ Goto(t, "done")
             /\ UNCHANGED << routes, loc, rref >>
        ELSE /\ routes' = RemoveAt(routes, route)
             /\ rref' = [x \in Threads |->
                          [j \in 1..Len(rref[x]) |->
                             AfterRemoveAt(routes, rref[x][j], route)]]
             /\ loc' = [loc EXCEPT ![t].ret = "rr_ok"]
             /\ Goto(t, "wr")
             /\ out' = out
  /\ UNCHANGED << peripherals, cfgFile, routesFile, pLock, rLock, cLock, now,
                  cmd, pref, in_command_mode,
                  dconn, sched >>

remove_route_ok(t) ==
  /\ pc[t] = "rr_ok"
  /\ Send(t, Text("Route removed successfully."))
  /\ Goto(t, "done")
  /\ UNCHANGED << peripherals, cfgFile, routes, routesFile, pLock, rLock, cLock,
                  now, cmd, loc, pref, rref, in_command_mode,
                  dconn, sched >>

\* A lookup that gives an empty name when no peripheral has the uuid.
NameByUuid_Blank(ps, u) ==
  LET peripheral == FirstWithUuid(ps, u)
  IN IF peripheral # 0 THEN ps[peripheral].name ELSE <<>>

\* get_peripheral_name_by_uuid
NameByUuid(ps, u) ==
  LET peripheral == FirstWithUuid(ps, u)
  IN IF peripheral # 0 THEN ps[peripheral].name ELSE <<"Unknown">>

\* One block of list_routes' output.
RouteRow(r, incoming_name, outgoing_name) ==
  [name |-> r.name, from |-> incoming_name, to |-> outgoing_name,
   incoming |-> r.incoming, outgoing |-> r.outgoing,
   incoming_port |-> r.incoming_port, outgoing_port |-> r.outgoing_port,
   last_used |-> IF r.last_used # Never THEN <<"at", r.last_used>> ELSE <<"Never">>]

\* What list_routes returns when nothing changes while it runs.
list_routes(rs, ps) ==
  [i \in 1..Len(rs) |->
     RouteRow(rs[i], NameByUuid(ps, rs[i].incoming), NameByUuid(ps, rs[i].outgoing))]

\* list_routes takes routes_lock and keeps it to the end.
list_routes_lock(t) ==
  /\ pc[t] = "lr"
  /\ rLock = Free
  /\ IF routes = <<>>
     THEN /\ Send(t, Text("No routes configured."))
          /\ Goto(t, "done")
          /\ UNCHANGED << rLock, loc >>
     ELSE /\ rLock' = t
          /\ loc' = [loc EXCEPT ![t].i = 1, ![t].rows = <<>>, ![t].sel = <<>>]
          /\ Goto(t, "lr_name")
          /\ out' = out
  /\ UNCHANGED << peripherals, cfgFile, routes, routesFile, pLock, cLock, now,
                  cmd, pref, rref, in_command_mode,
                  dconn, sched >>

\* Inside the lock, two get_peripheral_name_by_uuid calls per route, each of
\* which takes peripherals_lock; loc.i counts the calls made.
list_routes_name(t) ==
  /\ pc[t] = "lr_name"
  /\ pLock = Free
  /\ LET k == (loc[t].i + 1) \div 2
         route == routes[k]
     IN IF loc[t].i % 2 = 1
        THEN /\ loc' = [loc EXCEPT ![t].sel = NameByUuid(peripherals, route.incoming),
                                   ![t].i = @ + 1]
             /\ UNCHANGED << rLock, pc, out >>
        ELSE LET rows == Append(loc[t].rows,
                                RouteRow(route, loc[t].sel,
                                         NameByUuid(peripherals, route.outgoing)))
             IN IF k < Len(routes)
                THEN /\ loc' = [loc EXCEPT ![t].rows = rows, ![t].i = @ + 1]
                     /\ UNCHANGED << rLock, pc, out >>
                ELSE /\ rLock' = Free
                     /\ Send(t, [kind |-> "routes", body |-> rows])
                     /\ loc' = [loc EXCEPT ![t].rows = <<>>, ![t].i = 0, ![t].sel = <<>>]
                     /\ Goto(t, "done")
  /\ UNCHANGED << peripherals, cfgFile, routes, routesFile, pLock, cLock, now,
                  cmd, pref, rref, in_command_mode,
                  dconn, sched >>

(* ------------------------------ forwarding ---------------------------- *)

\* A filter on the destination instead of the source.
MatchingRoutes_ByOutgoing(rs, peripheral_uuid) ==
  LET hits == SelectSeq([i \in 1..Len(rs) |-> i],
                        LAMBDA i : rs[i].outgoing = peripheral_uuid)
  IN [j \in 1..Len(hits) |-> RRef(hits[j])]

\* [route for route in routes if route['incoming'] == peripheral_uuid], as
\* references into the list.
MatchingRoutes(rs, peripheral_uuid) ==
  LET hits == SelectSeq([i \in 1..Len(rs) |-> i],
                        LAMBDA i : rs[i].incoming = peripheral_uuid)
  IN [j \in 1..Len(hits) |-> RRef(hits[j])]

\* A forward that keeps the table it finds in memory.
hid_reload_KeepMemory(t) ==
  /\ pc[t] = "hid"
  /\ rLock = Free
  /\ Goto(t, "hid_match")
  /\ UNCHANGED << peripherals, cfgFile, routes, routesFile, pLock, rLock, cLock,
                  now, cmd, loc, pref, rref, out, in_command_mode,
                  dconn, sched >>

\* handle_incoming_data: with routes_lock: read_routes(). When routes.cf is
\* missing, read_routes calls write_routes, which asks for routes_lock again
\* while this thread holds it.
hid_reload(t) ==
  /\ pc[t] = "hid"
  /\ rLock = Free
  /\ rref' = DetachAll(rref, routes)
  /\ IF routesFile.exists
     THEN /\ routes' = JsonLoadRoutes(routesFile.doc)
          /\ Goto(t, "hid_match")
          /\ UNCHANGED << rLock, loc >>
     ELSE /\ routes' = <<>>
          /\ rLock' = t
          /\ loc' = [loc EXCEPT ![t].ret = "hid_match"]
          /\ Goto(t, "wr")
  /\ UNCHANGED << peripherals, cfgFile, routesFile, pLock, cLock, now, cmd,
                  pref, out, in_command_mode,
                  dconn, sched >>

\* The routes are matched outside the lock, on whatever list routes names now.
hid_match(t) ==
  /\ pc[t] = "hid_match"
  /\ LET matching_routes == MatchingRoutes(routes, loc[t].sel)
     IN /\ rref' = [rref EXCEPT ![t] = matching_routes]
        /\ IF matching_routes = <<>>
           THEN Emit(t, "no_route") /\ Goto(t, "done") /\ loc' = loc
           ELSE /\ loc' = [loc EXCEPT ![t].i = 1]
                /\ Goto(t, "hid_fwd")
                /\ out' = out
  /\ UNCHANGED << peripherals, cfgFile, routes, routesFile, pLock, rLock, cLock,
                  now, cmd, pref, in_command_mode,
                  dconn, sched >>

\* One socket.create_connection(('localhost', outgoing_port)) of the loop:
\* the route it is made for, the port it goes to, whether the payload was
\* sent, and the time written to route['last_used'] when it was.
Attempt(route, sent, at) ==
  [route |-> route.name, port |-> route.outgoing_port, sent |-> sent, at |-> at]

\* A loop that ends after its first route.
hid_next_FirstOnly(t) == "done"

\* After one route of the loop: the next route, or the end of the call.
hid_next(t) == IF loc[t].i < Len(rref[t]) THEN "hid_fwd" ELSE "done"

\* socket.create_connection to the route's outgoing_port fails or times out:
\* the except branch logs and the loop goes on.
hid_forward_fail(t) ==
  /\ pc[t] = "hid_fwd"
  /\ LET route == Deref(routes, rref[t][loc[t].i])
     IN out' = [out EXCEPT ![t] =
                  Log([@ EXCEPT !.conns = Append(@, Attempt(route, FALSE, Never))],
                      "forward_error")]
  /\ Goto(t, hid_next(t))
  /\ loc' = [loc EXCEPT ![t].i = @ + 1]
  /\ UNCHANGED << peripherals, cfgFile, routes, routesFile, pLock, rLock, cLock,
                  now, cmd, pref, rref, in_command_mode,
                  dconn, sched >>

\* The connection opens, the payload is sent and route['last_used'] is set,
\* without routes_lock, on the dict this thread references.
hid_forward_ok(t) ==
  /\ pc[t] = "hid_fwd"
  /\ now < MaxClock
  /\ LET ref == rref[t][loc[t].i]
         route == Deref(routes, ref)
     IN /\ out' = [out EXCEPT ![t].conns = Append(@, Attempt(route, TRUE, now + 1))]
        /\ IF ref.idx > 0
           THEN /\ routes' = [routes EXCEPT ![ref.idx].last_used = now + 1]
                /\ rref' = rref
           ELSE /\ rref' = [rref EXCEPT ![t][loc[t].i].snap.last_used = now + 1]
                /\ routes' = routes
  /\ now' = now + 1
  /\ loc' = [loc EXCEPT ![t].ret = "hid_names"]
  /\ Goto(t, "wr")
  /\ UNCHANGED << peripherals, cfgFile, routesFile, pLock, rLock, cLock, cmd, pref, in_command_mode,
                  dconn, sched >>

\* The two get_peripheral_name_by_uuid calls and the log line that follow
\* write_routes.
hid_names(t) ==
  /\ pc[t] = "hid_names"
  /\ pLock = Free
  /\ Emit(t, "forwarded")
  /\ Goto(t, hid_next(t))
  /\ loc' = [loc EXCEPT ![t].i = @ + 1]
  /\ UNCHANGED << peripherals, cfgFile, routes, routesFile, pLock, rLock, cLock,
                  now, cmd, pref, rref, in_command_mode,
                  dconn, sched >>

(* --------------------------- /list and /reset ------------------------- *)

\* One line of list_peripherals' output.
PeripheralRow(idx, p) ==
  [idx |-> idx, name |-> p.name, uuid |-> p.uuid, port |-> p.port,
   last_seen |-> p.last_seen]

list_peripherals(t) ==
  /\ pc[t] = "lp"
  /\ pLock = Free
  /\ IF peripherals = <<>>
     THEN Send(t, Text("No peripherals discovered."))
     ELSE Send(t, [kind |-> "peripherals",
                   body |-> [i \in 1..Len(peripherals) |->
                               PeripheralRow(i, peripherals[i])]])
  /\ Goto(t, "done")
  /\ UNCHANGED << peripherals, cfgFile, routes, routesFile, pLock, rLock, cLock,
                  now, cmd, loc, pref, rref, in_command_mode,
                  dconn, sched >>

\* reset_system / reset_orchestrator_menu: config['peripherals'] = [].
reset_clear(t) ==
  /\ pc[t] = "rs_clear"
  /\ pLock = Free
  /\ peripherals' = <<>>
  /\ pref' = DetachAll(pref, peripherals)
  /\ Emit(t, "cleared")
  /\ Goto(t, "rs_rm_cfg")
  /\ UNCHANGED << cfgFile, routes, routesFile, pLock, rLock, cLock, now, cmd,
                  loc, rref, in_command_mode,
                  dconn, sched >>

\* if os.path.exists(CONFIG_FILE): os.remove(CONFIG_FILE)
reset_remove_config(t) ==
  /\ pc[t] = "rs_rm_cfg"
  /\ cfgFile' = NoFile
  /\ Goto(t, "rs_rm_routes")
  /\ UNCHANGED << peripherals, routes, routesFile, pLock, rLock, cLock, now,
                  cmd, loc, pref, rref, out, in_command_mode,
                  dconn, sched >>

\* if os.path.exists(ROUTES_FILE): os.remove(ROUTES_FILE); then the caller is
\* told (send_response with 'port' and conn, or display_message at the menu).
reset_remove_routes(t) ==
  /\ pc[t] = "rs_rm_routes"
  /\ routesFile' = NoFile
  /\ LET message == Text("Configuration files deleted. Restarting orchestrator...")
     IN IF cmd[t][1] = <<"menu">>
        THEN Display(t, message)
        ELSE out' = [out EXCEPT ![t] = Respond(@, message,
                                               send_response("port", Conn(t)))]
  /\ Goto(t, "rs_exec")
  /\ UNCHANGED << peripherals, cfgFile, routes, pLock, rLock, cLock, now,
                  cmd, loc, pref, rref, in_command_mode,
                  dconn, sched >>

\* os.execv(sys.executable, ...): the process image is replaced. Every thread
\* ends, every lock is new, and start_orchestrator runs read_config and
\* read_routes, each of which writes its file when it finds none.
reset_exec(t) ==
  /\ pc[t] = "rs_exec"
  /\ peripherals' = IF cfgFile.exists THEN JsonLoadPeripherals(cfgFile.doc) ELSE <<>>
  /\ cfgFile' = IF cfgFile.exists THEN cfgFile ELSE FileOf(JsonDumpPeripherals(<<>>))
  /\ routes' = IF routesFile.exists THEN JsonLoadRoutes(routesFile.doc) ELSE <<>>
  /\ routesFile' = IF routesFile.exists THEN routesFile ELSE FileOf(JsonDumpRoutes(<<>>))
  /\ pLock' = Free /\ rLock' = Free /\ cLock' = Free
  /\ pc' = [x \in Threads |-> "idle"]
  /\ cmd' = [x \in Threads |-> <<>>]
  /\ loc' = [x \in Threads |-> Loc0]
  /\ pref' = [x \in Threads |-> <<>>]
  /\ rref' = [x \in Threads |-> <<>>]
  /\ out' = [x \in Threads |-> Out0]
  /\ in_command_mode' = FALSE
  /\ dconn' = DConn0
  /\ sched' = Sched0
  /\ now' = now

(* -------------------------- command dispatch -------------------------- *)

\* Where a command goes and what it answers at once: the step to run next
\* ("done" when the command ends here), the response sent now, if any, and
\* the arguments the handler is called with.
Handler(step, response, sel, text) ==
  [step |-> step, response |-> response, sel |-> sel, text |-> text]
Answer(message) == Handler("done", << Text(message) >>, <<>>, <<>>)

\* process_routes_command: tokens = command.strip().split()
process_routes_command(tokens) ==
  IF Len(tokens) < 2 THEN Answer("Invalid routes command.")
  ELSE LET action == tokens[2]
       IN IF action = <<"help">> THEN Answer("Routes command usage")
          ELSE IF action = <<"add">>
          THEN IF Len(tokens) # 5 THEN Answer("Usage: /routes add")
               ELSE Handler("ar_lookup", <<>>, tokens[3], <<>>)
          ELSE IF action = <<"remove">>
          THEN IF Len(tokens) # 3 THEN Answer("Usage: /routes remove")
               ELSE Handler("rr", <<>>, tokens[3], <<>>)
          ELSE IF action = <<"info">> THEN Handler("lr", <<>>, <<>>, <<>>)
          ELSE Answer("Unknown routes command.")

\* A dispatch without the int() test of the port.
process_command_NoIntCheck(command) ==
  IF StartsWith(command[1], <<"/data">>)
  THEN IF Len(command) >= 3
       THEN Handler("hid", <<>>, command[2], SubSeq(command, 3, Len(command)))
       ELSE Answer("Invalid data command format.")
  ELSE IF StartsWith(command[1], <<"/register">>)
  THEN IF Len(command) >= 4
       THEN Handler("reg", <<>>, command[3], <<>>)
       ELSE Answer("Invalid register command format.")
  ELSE IF command = << <<"/help">> >> THEN Answer("Available commands")
  ELSE IF command = << <<"/list">> >> \/ command = << <<"/available">> >>
  THEN Handler("lp", <<>>, <<>>, <<>>)
  ELSE IF StartsWith(command[1], <<"/routes">>) THEN process_routes_command(command)
  ELSE IF command = << <<"/reset">> >> THEN Handler("rs_clear", <<>>, <<>>, <<>>)
  ELSE IF command = << <<"/exit">> >> THEN Answer("Exiting command mode.")
  ELSE Answer("Unknown command.")

\* process_command, for a command line given as its space-separated tokens.
process_command(command) ==
  IF StartsWith(command[1], <<"/data">>)
  THEN \* tokens = command.strip().split(' ', 2)
       IF Len(command) >= 3
       THEN Handler("hid", <<>>, command[2], SubSeq(command, 3, Len(command)))
       ELSE Answer("Invalid data command format.")
  ELSE IF StartsWith(command[1], <<"/register">>)
  THEN \* tokens = command.strip().split(' ', 3); int(tokens[3])
       IF Len(command) >= 4
       THEN IF Len(command) = 4 /\ IsIntText(command[4])
            THEN Handler("reg", <<>>, command[3], <<>>)
            ELSE Answer("Port must be an integer.")
       ELSE Answer("Invalid register command format.")
  ELSE IF command = << <<"/help">> >> THEN Answer("Available commands")
  ELSE IF command = << <<"/list">> >> \/ command = << <<"/available">> >>
  THEN Handler("lp", <<>>, <<>>, <<>>)
  ELSE IF StartsWith(command[1], <<"/routes">>) THEN process_routes_command(command)
  ELSE IF command = << <<"/reset">> >> THEN Handler("rs_clear", <<>>, <<>>, <<>>)
  ELSE IF command = << <<"/exit">> >> THEN Answer("Exiting command mode.")
  ELSE Answer("Unknown command.")

\* An '/exit' that ends the process whatever channel it came from.
exit_effect_AlwaysExit(command, source) ==
  IF command = << <<"/exit">> >> THEN "exit" ELSE "continue"

\* What follows the response of '/exit': from the display, in_command_mode
\* is cleared and process_command returns False; from the console, exit(0);
\* from anywhere else, and for every other command, process_command returns
\* True.
exit_effect(command, source) ==
  IF command = << <<"/exit">> >>
  THEN IF source = "curses" THEN "stop"
       ELSE IF source = "console" THEN "exit"
       ELSE "continue"
  ELSE "continue"

\* process_command(command, source, conn) is entered: the dispatch, and the
\* response of a command that ends in it. After exit(0) no thread runs any
\* more.
Dispatch(t, command, source) ==
  /\ pc[t] = "idle"
  /\ LET h == process_command(command)
         effect == exit_effect(command, source)
     IN /\ h.step = "reg" => now < MaxClock
        /\ pc' = IF effect = "exit" THEN [x \in Threads |-> "exited"]
                 ELSE [pc EXCEPT ![t] = h.step]
        /\ in_command_mode' = IF effect = "stop" THEN FALSE ELSE in_command_mode
        /\ cmd' = [cmd EXCEPT ![t] = command]
        /\ loc' = [loc EXCEPT ![t].sel = h.sel, ![t].text = h.text,
                              ![t].source = source]
        /\ out' = [out EXCEPT ![t].resp = h.response,
                              ![t].chans = [i \in 1..Len(h.response) |->
                                              send_response(source, Conn(t))],
                              ![t].cont = (effect # "stop"),
                              ![t].signal = (source = "port" /\ ~in_command_mode)]
  /\ UNCHANGED << peripherals, cfgFile, routes, routesFile, pLock, rLock, cLock,
                  now, pref, rref,
                  dconn, sched >>

\* handle_client_connection: a line arrives on the worker's connection and
\* goes to process_command(command, 'port', conn).
StartCommand(t, command) == Dispatch(t, command, "port")

\* process_command has returned: the worker is back at conn.recv.
Return(t) ==
  /\ pc[t] = "done"
  /\ Goto(t, "idle")
  /\ cmd' = [cmd EXCEPT ![t] = <<>>]
  /\ loc' = [loc EXCEPT ![t] = Loc0]
  /\ pref' = [pref EXCEPT ![t] = <<>>]
  /\ rref' = [rref EXCEPT ![t] = <<>>]
  /\ out' = [out EXCEPT ![t] = Out0]
  /\ UNCHANGED << peripherals, cfgFile, routes, routesFile, pLock, rLock, cLock, now, in_command_mode,
                  dconn, sched >>

(* ----------------------------- operator ------------------------------- *)

\* `name in selected_peripheral_info`: the name occurs in the menu line
\* "<name> (UUID: <uuid>)" of the selected entry. (Names are taken not to
\* occur in the "(UUID: ...)" part.)
OccursIn(name, line_name) ==
  \E i \in 0..(Len(line_name) - Len(name)) :
     SubSeq(line_name, i + 1, i + Len(name)) = name

\* remove_peripheral_menu: the entries are listed under peripherals_lock.
remove_peripheral_list(t) ==
  /\ pc[t] = "idle"
  /\ pLock = Free
  /\ IF peripherals = <<>>
     THEN /\ Display(t, Text("No peripherals to remove."))
          /\ Goto(t, "done")
          /\ loc' = loc
     ELSE /\ loc' = [loc EXCEPT ![t].rows =
                      [i \in 1..Len(peripherals) |->
                         << peripherals[i].name, peripherals[i].uuid >>]]
          /\ Goto(t, "rp_select")
          /\ out' = out
  /\ cmd' = [cmd EXCEPT ![t] = << <<"menu">>, <<"remove_peripheral">> >>]
  /\ UNCHANGED << peripherals, cfgFile, routes, routesFile, pLock, rLock, cLock,
                  now, pref, rref, in_command_mode,
                  dconn, sched >>

\* The operator picks line k and confirms: the uuid removed is that of the
\* first listed entry whose name occurs in the picked line.
remove_peripheral_select(t, k) ==
  /\ pc[t] = "rp_select"
  /\ k \in 1..Len(loc[t].rows)
  /\ LET rows == loc[t].rows
         first == CHOOSE i \in 1..Len(rows) :
                    /\ OccursIn(rows[i][1], rows[k][1])
                    /\ \A j \in 1..(i - 1) : ~OccursIn(rows[j][1], rows[k][1])
     IN loc' = [loc EXCEPT ![t].sel = rows[first][2], ![t].rows = <<>>]
  /\ Goto(t, "rp_remove")
  /\ UNCHANGED << peripherals, cfgFile, routes, routesFile, pLock, rLock, cLock,
                  now, cmd, pref, rref, out, in_command_mode,
                  dconn, sched >>

\* ESC at the selection, or anything but y at the confirmation.
menu_cancel(t) ==
  /\ pc[t] \in { "rp_select", "rsm_confirm" }
  /\ Goto(t, "done")
  /\ loc' = [loc EXCEPT ![t].rows = <<>>]
  /\ UNCHANGED << peripherals, cfgFile, routes, routesFile, pLock, rLock, cLock,
                  now, cmd, pref, rref, out, in_command_mode,
                  dconn, sched >>

\* The references after config['peripherals'] has been rebuilt without uuid u.
AfterFilter(ps, ref, u) ==
  IF ref.idx = 0 THEN ref
  ELSE IF ps[ref.idx].uuid = u THEN Detached(ps, ref)
  ELSE [ref EXCEPT !.idx = Cardinality({ j \in 1..ref.idx : ps[j].uuid # u })]

\* config['peripherals'] = [p for p in config['peripherals'] if p['uuid'] != selected_uuid]
RemovePeripheral(ps, selected_uuid) == SelectSeq(ps, LAMBDA p : p.uuid # selected_uuid)

remove_peripheral(t) ==
  /\ pc[t] = "rp_remove"
  /\ pLock = Free
  /\ peripherals' = RemovePeripheral(peripherals, loc[t].sel)
  /\ pref' = [x \in Threads |->
               [j \in 1..Len(pref[x]) |-> AfterFilter(peripherals, pref[x][j], loc[t].sel)]]
  /\ loc' = [loc EXCEPT ![t].ret = "rp_ok"]
  /\ Goto(t, "wc_lock")
  /\ UNCHANGED << cfgFile, routes, routesFile, pLock, rLock, cLock, now, cmd,
                  rref, out, in_command_mode,
                  dconn, sched >>

remove_peripheral_ok(t) ==
  /\ pc[t] = "rp_ok"
  /\ Display(t, Text("Peripheral removed successfully."))
  /\ Goto(t, "done")
  /\ UNCHANGED << peripherals, cfgFile, routes, routesFile, pLock, rLock, cLock,
                  now, cmd, loc, pref, rref, in_command_mode,
                  dconn, sched >>

\* reset_orchestrator_menu: the confirmation prompt.
reset_menu(t) ==
  /\ pc[t] = "idle"
  /\ Goto(t, "rsm_confirm")
  /\ cmd' = [cmd EXCEPT ![t] = << <<"menu">>, <<"reset">> >>]
  /\ UNCHANGED << peripherals, cfgFile, routes, routesFile, pLock, rLock, cLock,
                  now, loc, pref, rref, out, in_command_mode,
                  dconn, sched >>

reset_menu_confirm(t) ==
  /\ pc[t] = "rsm_confirm"
  /\ Goto(t, "rs_clear")
  /\ UNCHANGED << peripherals, cfgFile, routes, routesFile, pLock, rLock, cLock,
                  now, cmd, loc, pref, rref, out, in_command_mode,
                  dconn, sched >>

(* ----------------------------- discovery ------------------------------ *)

\* What a probed port sends back to '/info', as the lines of
\* response.strip().split('\n'); an 'EOF' marker that ends the read stays in
\* the text.
ProbeResponses ==
  { << <<"A">>, <<"u1">>, <<"cfg">> >>,
    << <<"A">>, <<"u2">>, <<"cfg">>, <<"EOF">> >>,
    << <<"B">>, <<"u1">>, <<"cfg">> >>,
    << <<"A">>, <<"u1">> >>,
    << <<"A">>, <<"not-a-uuid">>, <<"cfg">> >> }
ProbePorts == { 71, 72 }

\* The name process_response stores for a new peripheral.
UniqueName(ps, name) ==
  LET same_name_count ==
        Cardinality({ i \in 1..Len(ps) :
                        \/ ps[i].name = name
                        \/ (StartsWith(ps[i].name, name) /\ Len(ps[i].name) > Len(name)) })
  IN IF same_name_count > 0 THEN Append(name, StrOfInt(same_name_count + 1)) ELSE name

\* The registry after process_response's add-or-update. existing.update
\* overwrites the five keys of the new dict and keeps data_port.
DiscoveryUpsert(ps, name, uuid, cfg, port, seen) ==
  LET existing == FirstWithUuid(ps, uuid)
  IN IF existing # 0
     THEN [ps EXCEPT ![existing] =
             Peripheral(name, uuid, cfg, port, seen, ps[existing].data_port)]
     ELSE Append(ps, Peripheral(UniqueName(ps, name), uuid, cfg, port, seen, NoPort))

\* check_port(port): the connection fails, or the peer sends nothing, or it
\* sends a response.
check_port_fail_step(t, port) ==
  /\ pc[t] = "idle"
  /\ Goto(t, "cp_except")
  /\ loc' = [loc EXCEPT ![t].dport = port]
  /\ cmd' = [cmd EXCEPT ![t] = << <<"probe">> >>]
  /\ UNCHANGED << peripherals, cfgFile, routes, routesFile, pLock, rLock, cLock,
                  now, pref, rref, out, in_command_mode,
                  dconn >>

check_port_fail(t, port) == check_port_fail_step(t, port) /\ UNCHANGED sched

check_port_response_step(t, port, lines) ==
  /\ pc[t] = "idle"
  /\ Goto(t, "pr")
  /\ loc' = [loc EXCEPT ![t].dport = port, ![t].rows = lines]
  /\ cmd' = [cmd EXCEPT ![t] = << <<"probe">> >>]
  /\ UNCHANGED << peripherals, cfgFile, routes, routesFile, pLock, rLock, cLock,
                  now, pref, rref, out, in_command_mode,
                  dconn >>

check_port_response(t, port, lines) == check_port_response_step(t, port, lines) /\ UNCHANGED sched

\* process_response(response, port). With re unbound, re.compile raises
\* NameError for every response of 3 lines or more; check_port catches it.
process_response(t) ==
  /\ pc[t] = "pr"
  /\ LET lines == loc[t].rows
     IN IF Len(lines) < 3
        THEN /\ Emit(t, "incomplete_response")
             /\ Goto(t, "done")
             /\ UNCHANGED << peripherals, now, loc >>
        ELSE IF ~ReImported
        THEN /\ Goto(t, "cp_except")
             /\ UNCHANGED << peripherals, now, loc, out >>
        ELSE IF ~uuid_pattern(lines[2])
        THEN /\ Emit(t, "invalid_uuid")
             /\ Goto(t, "done")
             /\ UNCHANGED << peripherals, now, loc >>
        ELSE /\ pLock = Free
             /\ now < MaxClock
             /\ peripherals' = DiscoveryUpsert(peripherals, lines[1], lines[2],
                                               SubSeq(lines, 3, Len(lines)),
                                               loc[t].dport, now + 1)
             /\ Len(peripherals') <= MaxPeripherals
             /\ now' = now + 1
             /\ Emit(t, "discovered")
             /\ loc' = [loc EXCEPT ![t].ret = "pr_colors", ![t].i = 1]
             /\ Goto(t, "wc_lock")
  /\ UNCHANGED << cfgFile, routes, routesFile, pLock, rLock, cLock, cmd, pref, rref, in_command_mode,
                  dconn, sched >>

\* A failed probe that drops the peripheral of the probed port.
peripherals_read_Expire(t) ==
  /\ pc[t] \in { "cp_except", "pr_colors" }
  /\ pLock = Free
  /\ peripherals' = IF pc[t] = "cp_except"
                    THEN SelectSeq(peripherals, LAMBDA p : p.port # loc[t].dport)
                    ELSE peripherals
  /\ Emit(t, "connect_error")
  /\ Goto(t, "done")
  /\ UNCHANGED << cfgFile, routes, routesFile, pLock, rLock, cLock, now, cmd,
                  loc, pref, rref, in_command_mode, dconn, sched >>

\* A critical section under peripherals_lock that only reads the registry:
\* get_peripheral_by_port in check_port's except branch, and
\* assign_colors_to_peripherals after each of process_response's two
\* write_config calls.
peripherals_read(t) ==
  /\ pc[t] \in { "cp_except", "pr_colors" }
  /\ pLock = Free
  /\ IF pc[t] = "cp_except"
     THEN Emit(t, "connect_error") /\ Goto(t, "done") /\ loc' = loc
     ELSE IF loc[t].i = 1
     THEN /\ loc' = [loc EXCEPT ![t].i = 2]
          /\ Goto(t, "wc_lock")
          /\ Raise(t)
     ELSE Raise(t) /\ Goto(t, "done") /\ loc' = loc
  /\ UNCHANGED << peripherals, cfgFile, routes, routesFile, pLock, rLock, cLock,
                  now, cmd, pref, rref, in_command_mode,
                  dconn, sched >>

(* ---------------------------- synchronizer ---------------------------- *)

\* uuid_to_port = {p['uuid']: p.get('port') ...}[u]: the last entry wins.
uuid_to_port(ps, u) ==
  LET at == { i \in 1..Len(ps) : ps[i].uuid = u }
  IN ps[CHOOSE i \in at : \A j \in at : j <= i].port

KnownUuid(ps, u) == \E i \in 1..Len(ps) : ps[i].uuid = u

\* A loop that also rewrites the routes of peripherals the registry does
\* not hold, with no port.
SyncPorts_Absent(rs, ps) ==
  [i \in 1..Len(rs) |->
     [rs[i] EXCEPT
        !.incoming_port = IF KnownUuid(ps, rs[i].incoming)
                          THEN uuid_to_port(ps, rs[i].incoming) ELSE NoPort,
        !.outgoing_port = IF KnownUuid(ps, rs[i].outgoing)
                          THEN uuid_to_port(ps, rs[i].outgoing) ELSE NoPort]]

\* A loop that repairs the source port only.
SyncPorts_IncomingOnly(rs, ps) ==
  [i \in 1..Len(rs) |->
     [rs[i] EXCEPT
        !.incoming_port = IF KnownUuid(ps, rs[i].incoming)
                          THEN uuid_to_port(ps, rs[i].incoming) ELSE @]]

\* port_sync's loop over routes_data.
SyncPorts(rs, ps) ==
  [i \in 1..Len(rs) |->
     [rs[i] EXCEPT
        !.incoming_port = IF KnownUuid(ps, rs[i].incoming)
                          THEN uuid_to_port(ps, rs[i].incoming) ELSE @,
        !.outgoing_port = IF KnownUuid(ps, rs[i].outgoing)
                          THEN uuid_to_port(ps, rs[i].outgoing) ELSE @]]

\* port_sync: with config_lock, routes_lock: the first lock ...
port_sync_lock_step(t) ==
  /\ pc[t] = "idle"
  /\ cLock = Free
  /\ cLock' = t
  /\ Goto(t, "sync")
  /\ UNCHANGED << peripherals, cfgFile, routes, routesFile, pLock, rLock, now,
                  cmd, loc, pref, rref, out, in_command_mode,
                  dconn >>

port_sync_lock(t) == port_sync_lock_step(t) /\ UNCHANGED sched

\* ... then the second, both files are read, and routes.cf is rewritten when
\* a port differed.
port_sync_step(t) ==
  /\ pc[t] = "sync"
  /\ rLock = Free
  /\ LET orch_data == IF cfgFile.exists THEN JsonLoadPeripherals(cfgFile.doc) ELSE <<>>
         routes_data == IF routesFile.exists THEN JsonLoadRoutes(routesFile.doc) ELSE <<>>
         synced == SyncPorts(routes_data, orch_data)
     IN routesFile' = IF synced # routes_data THEN FileOf(JsonDumpRoutes(synced))
                      ELSE routesFile
  /\ cLock' = Free
  /\ Goto(t, "idle")
  /\ UNCHANGED << peripherals, cfgFile, routes, pLock, rLock, now, cmd, loc,
                  pref, rref, out, in_command_mode,
                  dconn >>

port_sync(t) == port_sync_step(t) /\ UNCHANGED sched

(* --------------------------- periodic loops --------------------------- *)

\* Time goes by: one more interval for every loop.
interval_elapses ==
  /\ \E k \in Loops : sched[k].t < MaxElapsed
  /\ sched' = [k \in Loops |->
                 [sched[k] EXCEPT !.t = IF @ < MaxElapsed THEN @ + 1 ELSE @]]
  /\ UNCHANGED << peripherals, cfgFile, routes, routesFile, pLock, rLock, cLock,
                  now, pc, cmd, loc, pref, rref, out, in_command_mode, dconn >>

\* A pass every interval, whether or not the previous one has returned.
MayStartPass_Timer(phase) == phase.t >= 1

\* The loop calls its pass again when time.sleep has returned, and it calls
\* time.sleep only after the pass has returned.
MayStartPass(phase) == phase.at = "sleep" /\ phase.t >= 1

BeginPass(phase) == [phase EXCEPT !.at = "pass", !.t = 0, !.running = @ + 1, !.i = 0]
EndPass(phase) == [phase EXCEPT !.at = "sleep", !.t = 0, !.running = @ - 1]

\* ports[i] of scan_ports, the ports in ascending order.
PortAt(i) == CHOOSE p \in ProbePorts : Cardinality({ q \in ProbePorts : q < p }) = i - 1

\* periodic_scan: scan_ports() is called.
scan_pass_begin ==
  /\ MayStartPass(sched.scan)
  /\ sched.scan.running < MaxActive
  /\ sched' = [sched EXCEPT !.scan = BeginPass(@)]
  /\ UNCHANGED << peripherals, cfgFile, routes, routesFile, pLock, rLock, cLock,
                  now, pc, cmd, loc, pref, rref, out, in_command_mode, dconn >>

\* for port in ports: check_port(port), the probe fails ...
scan_probe_fail ==
  /\ sched.scan.at = "pass"
  /\ sched.scan.i < Cardinality(ProbePorts)
  /\ check_port_fail_step(Scanner, PortAt(sched.scan.i + 1))
  /\ sched' = [sched EXCEPT !.scan.i = @ + 1]

\* ... or is answered.
scan_probe_response(lines) ==
  /\ sched.scan.at = "pass"
  /\ sched.scan.i < Cardinality(ProbePorts)
  /\ check_port_response_step(Scanner, PortAt(sched.scan.i + 1), lines)
  /\ sched' = [sched EXCEPT !.scan.i = @ + 1]

\* scan_ports has returned: time.sleep(scan_interval).
scan_pass_end ==
  /\ sched.scan.at = "pass"
  /\ sched.scan.i = Cardinality(ProbePorts)
  /\ pc[Scanner] = "idle"
  /\ sched' = [sched EXCEPT !.scan = EndPass(@)]
  /\ UNCHANGED << peripherals, cfgFile, routes, routesFile, pLock, rLock, cLock,
                  now, pc, cmd, loc, pref, rref, out, in_command_mode, dconn >>

\* port_sync: the top of `while True:`.
sync_pass_begin ==
  /\ MayStartPass(sched.sync)
  /\ sched.sync.running < MaxActive
  /\ sched' = [sched EXCEPT !.sync = BeginPass(@)]
  /\ UNCHANGED << peripherals, cfgFile, routes, routesFile, pLock, rLock, cLock,
                  now, pc, cmd, loc, pref, rref, out, in_command_mode, dconn >>

\* with config_lock, routes_lock: the first lock.
sync_pass_lock ==
  /\ sched.sync.at = "pass"
  /\ sched.sync.i = 0
  /\ port_sync_lock_step(Syncer)
  /\ sched' = [sched EXCEPT !.sync.i = 1]

\* The body of the pass, then time.sleep(5).
sync_pass_end ==
  /\ sched.sync.at = "pass"
  /\ port_sync_step(Syncer)
  /\ sched' = [sched EXCEPT !.sync = EndPass(@)]

(* --------------------------- data connections ------------------------- *)

\* Bytes are named after the ASCII character they encode; LeadByte and
\* TrailByte are the two bytes of one character outside ASCII.
LineFeed == "LF"
LeadByte == "C3"
TrailByte == "A9"
NonAscii == "e-acute"

\* data.decode(): strict UTF-8. ok is FALSE where decode raises
\* UnicodeDecodeError (a lead byte without its trail byte, or a trail byte
\* alone).
RECURSIVE Decode(_)
Decode(bytes) ==
  IF bytes = <<>> THEN [ok |-> TRUE, text |-> <<>>]
  ELSE IF bytes[1] = LeadByte
  THEN IF Len(bytes) >= 2 /\ bytes[2] = TrailByte
       THEN LET rest == Decode(SubSeq(bytes, 3, Len(bytes)))
            IN [ok |-> rest.ok, text |-> << NonAscii >> \o rest.text]
       ELSE [ok |-> FALSE, text |-> <<>>]
  ELSE IF bytes[1] = TrailByte THEN [ok |-> FALSE, text |-> <<>>]
  ELSE LET rest == Decode(Tail(bytes))
       IN [ok |-> rest.ok, text |-> << bytes[1] >> \o rest.text]

\* The byte streams a peer sends on the data connection before it closes.
DataStreams ==
  { << "u1", LineFeed, "h", LineFeed, "i", LineFeed >>,
    << "u1", LineFeed, "h", LeadByte, TrailByte, LineFeed >>,
    << "u2", LineFeed, "h", "i", LineFeed, LineFeed >> }

\* data_listener accepts a connection and starts handle_data_connection,
\* which looks up the peripheral of the local port before its loop.
data_connect(stream) ==
  /\ pc[DataWorker] = "idle"
  /\ ~dconn.open
  /\ pLock = Free
  /\ dconn' = [DConn0 EXCEPT !.open = TRUE, !.sent = stream, !.stream = stream]
  /\ out' = [out EXCEPT ![DataWorker] = Out0]
  /\ UNCHANGED << peripherals, cfgFile, routes, routesFile, pLock, rLock, cLock,
                  now, pc, cmd, loc, pref, rref, in_command_mode, sched >>

\* data = conn.recv(1024) returns the next n bytes; buffer += data.decode().
\* When decode raises, the except branch logs and leaves the loop, and the
\* connection is closed.
data_recv(n) ==
  /\ pc[DataWorker] = "idle"
  /\ dconn.open
  /\ n \in 1..Len(dconn.stream)
  /\ LET decoded == Decode(SubSeq(dconn.stream, 1, n))
         rest == SubSeq(dconn.stream, n + 1, Len(dconn.stream))
     IN IF decoded.ok
        THEN /\ dconn' = [dconn EXCEPT !.stream = rest,
                                       !.buffer = @ \o decoded.text,
                                       !.last = "data"]
             /\ Goto(DataWorker, "dc_lines")
             /\ out' = out
        ELSE /\ dconn' = [dconn EXCEPT !.stream = rest, !.open = FALSE,
                                       !.last = "decode"]
             /\ Emit(DataWorker, "data_connection_error")
             /\ pc' = pc
  /\ UNCHANGED << peripherals, cfgFile, routes, routesFile, pLock, rLock, cLock,
                  now, cmd, loc, pref, rref, in_command_mode, sched >>

\* The peer closes its end; what it has sent can still be received.
data_peer_close ==
  /\ dconn.open
  /\ ~dconn.closed
  /\ dconn' = [dconn EXCEPT !.closed = TRUE]
  /\ UNCHANGED << peripherals, cfgFile, routes, routesFile, pLock, rLock, cLock,
                  now, pc, cmd, loc, pref, rref, out, in_command_mode, sched >>

\* conn.recv returns b'' after the peer has closed: break.
data_eof ==
  /\ pc[DataWorker] = "idle"
  /\ dconn.open
  /\ dconn.stream = <<>>
  /\ dconn.closed
  /\ dconn' = [dconn EXCEPT !.open = FALSE, !.last = "eof"]
  /\ UNCHANGED << peripherals, cfgFile, routes, routesFile, pLock, rLock, cLock,
                  now, pc, cmd, loc, pref, rref, out, in_command_mode, sched >>

\* conn.recv raises socket.timeout after 5 s without data: continue.
data_timeout ==
  /\ pc[DataWorker] = "idle"
  /\ dconn.open
  /\ dconn.stream = <<>>
  /\ ~dconn.closed
  /\ dconn' = [dconn EXCEPT !.last = "timeout"]
  /\ UNCHANGED << peripherals, cfgFile, routes, routesFile, pLock, rLock, cLock,
                  now, pc, cmd, loc, pref, rref, out, in_command_mode, sched >>

\* conn.recv raises another OSError (the connection was reset): the except
\* branch logs and leaves the loop.
data_io_error ==
  /\ pc[DataWorker] = "idle"
  /\ dconn.open
  /\ dconn' = [dconn EXCEPT !.open = FALSE, !.closed = TRUE, !.last = "error"]
  /\ Emit(DataWorker, "data_connection_error")
  /\ UNCHANGED << peripherals, cfgFile, routes, routesFile, pLock, rLock, cLock,
                  now, pc, cmd, loc, pref, rref, in_command_mode, sched >>

\* while '\n' in buffer: line, buffer = buffer.split('\n', 1); the first
\* line becomes peripheral_uuid, every later one goes to
\* handle_incoming_data(peripheral_uuid, line).
data_line ==
  /\ pc[DataWorker] = "dc_lines"
  /\ LET at == FirstOf({ i \in 1..Len(dconn.buffer) : dconn.buffer[i] = LineFeed })
         line == SubSeq(dconn.buffer, 1, at - 1)
         rest == SubSeq(dconn.buffer, at + 1, Len(dconn.buffer))
     IN IF at = 0
        THEN /\ Goto(DataWorker, "idle")
             /\ UNCHANGED << dconn, loc >>
        ELSE IF dconn.uuid = <<>>
        THEN /\ dconn' = [dconn EXCEPT !.buffer = rest, !.uuid = << line >>]
             /\ UNCHANGED << pc, loc >>
        ELSE /\ dconn' = [dconn EXCEPT
                            !.buffer = rest,
                            !.forwards = Append(@, [uuid |-> dconn.uuid[1],
                                                    data |-> line])]
             /\ loc' = [loc EXCEPT ![DataWorker].sel = dconn.uuid[1],
                                   ![DataWorker].text = << line >>]
             /\ Goto(DataWorker, "hid")
  /\ UNCHANGED << peripherals, cfgFile, routes, routesFile, pLock, rLock, cLock,
                  now, cmd, pref, rref, out, in_command_mode, sched >>

\* handle_incoming_data has returned: back to the test of the inner loop.
data_resume ==
  /\ pc[DataWorker] = "done"
  /\ Goto(DataWorker, "dc_lines")
  /\ loc' = [loc EXCEPT ![DataWorker] = Loc0]
  /\ rref' = [rref EXCEPT ![DataWorker] = <<>>]
  /\ out' = [out EXCEPT ![DataWorker] = Out0]
  /\ UNCHANGED << peripherals, cfgFile, routes, routesFile, pLock, rLock, cLock,
                  now, cmd, pref, in_command_mode, dconn, sched >>

(* -------------------------------- locks ------------------------------- *)

\* The thread's next statement is a `with peripherals_lock:` (write_config,
\* register_peripheral, list_peripherals, add_route, the two
\* get_peripheral_name_by_uuid calls of list_routes and of
\* handle_incoming_data, reset_system, remove_peripheral_menu,
\* get_peripheral_by_port, assign_colors_to_peripherals).
AsksPeripheralsLock(t) ==
  pc[t] \in { "wc_lock", "reg", "lp", "ar_lookup", "lr_name", "hid_names",
              "rs_clear", "rp_remove", "cp_except", "pr_colors" }

\* The thread's next statement is a `with config_lock:` (write_config's inner
\* block, port_sync's first lock).
AsksConfigLock(t) == pc[t] = "wc_write"

\* The thread's next statement is a `with routes_lock:` (write_routes,
\* add_route, remove_route, list_routes, handle_incoming_data, port_sync's
\* second lock).
AsksRoutesLock(t) == pc[t] \in { "wr", "ar_add", "rr", "lr", "hid", "sync" }

(* ------------------------------ behaviour ----------------------------- *)

\* The threads that are inside an operation.
Active == { t \in Threads : pc[t] # "idle" }

\* A thread between operations starts one only while fewer than `limit`
\* threads are inside an operation.
Starts(limit, t) == pc[t] = "idle" /\ Cardinality(Active) < limit

\* The steps that start an operation, drawn from the given command lines.
Begin(limit, commands) ==
  \/ \E t \in Workers, command \in commands :
       Starts(limit, t) /\ StartCommand(t, command)
  \/ \E port \in ProbePorts :
       Starts(limit, Scanner) /\ check_port_fail(Scanner, port)
  \/ \E port \in ProbePorts, lines \in ProbeResponses :
       Starts(limit, Scanner) /\ check_port_response(Scanner, port, lines)
  \/ Starts(limit, Operator) /\ remove_peripheral_list(Operator)
  \/ Starts(limit, Operator) /\ reset_menu(Operator)

\* The steps inside the operations on the registry.
RegistrySteps ==
  \/ \E t \in Workers : register_peripheral(t)
  \/ \E t \in Workers : register_ack(t)
  \/ \E t \in Workers : list_peripherals(t)
  \/ \E t \in Threads : wc_lock(t)
  \/ \E t \in Threads : wc_write(t)
  \/ process_response(Scanner)
  \/ peripherals_read(Scanner)
  \/ \E k \in 1..MaxPeripherals : remove_peripheral_select(Operator, k)
  \/ menu_cancel(Operator)
  \/ remove_peripheral(Operator)
  \/ remove_peripheral_ok(Operator)
  \/ reset_menu_confirm(Operator)
  \/ \E t \in Threads : reset_clear(t)
  \/ \E t \in Threads : reset_remove_config(t)
  \/ \E t \in Threads : reset_remove_routes(t)
  \/ \E t \in Threads : reset_exec(t)
  \/ \E t \in Threads : Return(t)

\* The steps inside the operations on the route table.
RouteSteps ==
  \/ \E t \in Workers : add_route_lookup(t)
  \/ \E t \in Workers : add_route_append(t)
  \/ \E t \in Workers : add_route_ok(t)
  \/ \E t \in Threads : remove_route(t)
  \/ \E t \in Threads : remove_route_ok(t)
  \/ \E t \in Workers : list_routes_lock(t)
  \/ \E t \in Workers : list_routes_name(t)
  \/ \E t \in Threads : write_routes(t)
  \/ \E t \in Workers : hid_reload(t)
  \/ \E t \in Workers : hid_match(t)
  \/ \E t \in Workers : hid_forward_fail(t)
  \/ \E t \in Workers : hid_forward_ok(t)
  \/ \E t \in Workers : hid_names(t)

SyncSteps(limit) ==
  \/ Starts(limit, Syncer) /\ port_sync_lock(Syncer)
  \/ port_sync(Syncer)

\* Every thread runs, and any number of operations overlap.
Next ==
  \/ Begin(Cardinality(Threads), Commands)
  \/ RegistrySteps
  \/ RouteSteps
  \/ SyncSteps(Cardinality(Threads))

Spec == Init /\ [][Next]_vars

\* One operation at a time: an operation starts only when no other is in
\* progress.
SeqNext ==
  \/ Begin(1, Commands)
  \/ RegistrySteps
  \/ RouteSteps
  \/ SyncSteps(1)

SeqSpec == Init /\ [][SeqNext]_vars

\* The operations on the registry alone, at most MaxActive of them at a time.
RegistryCommands == RegisterCommands \cup { << <<"/list">> >>, << <<"/reset">> >> }

RegistryNext ==
  \/ Begin(MaxActive, RegistryCommands)
  \/ RegistrySteps

RegistrySpec == Init /\ [][RegistryNext]_vars

\* Registrations of peripherals that are not in the registry yet, one after
\* another, from the empty registry.
IsRegistration(command) ==
  /\ Len(command) = 4
  /\ command[1] = <<"/register">>
  /\ IsIntText(command[4])

FreshRegisterNext ==
  \/ \E t \in Workers, command \in RegisterCommands :
       /\ IsRegistration(command)
       /\ ~KnownUuid(peripherals, command[3])
       /\ Starts(1, t)
       /\ StartCommand(t, command)
  \/ \E t \in Workers : register_peripheral(t)
  \/ \E t \in Workers : register_ack(t)
  \/ \E t \in Workers : wc_lock(t)
  \/ \E t \in Workers : wc_write(t)
  \/ \E t \in Workers : Return(t)

FreshRegisterSpec == Init /\ [][FreshRegisterNext]_vars

\* Forwards of several connection workers at the same time, over a route set
\* up beforehand: a registration or a route command runs alone, a forward
\* starts while at most MaxActive - 1 other forwards are in progress.
ForwardCommands ==
  { << <<"/register">>, <<"A">>, <<"u1">>, <<"7", "1">> >>,
    << <<"/routes">>, <<"add">>, <<"R", "2">>, <<"A">>, <<"A">> >>,
    << <<"/data">>, <<"u1">>, <<"hello">> >> }

InForward(t) == cmd[t] # <<>> /\ StartsWith(cmd[t][1], <<"/data">>)

ForwardNext ==
  \/ \E t \in Workers, command \in ForwardCommands :
       /\ IF StartsWith(command[1], <<"/data">>)
          THEN Starts(MaxActive, t) /\ \A x \in Active : InForward(x)
          ELSE Starts(1, t)
       /\ StartCommand(t, command)
  \/ \E t \in Workers : register_peripheral(t)
  \/ \E t \in Workers : register_ack(t)
  \/ \E t \in Workers : wc_lock(t)
  \/ \E t \in Workers : wc_write(t)
  \/ \E t \in Workers : add_route_lookup(t)
  \/ \E t \in Workers : add_route_append(t)
  \/ \E t \in Workers : add_route_ok(t)
  \/ \E t \in Workers : write_routes(t)
  \/ \E t \in Workers : hid_reload(t)
  \/ \E t \in Workers : hid_match(t)
  \/ \E t \in Workers : hid_forward_fail(t)
  \/ \E t \in Workers : hid_forward_ok(t)
  \/ \E t \in Workers : hid_names(t)
  \/ \E t \in Workers : Return(t)

ForwardSpec == Init /\ [][ForwardNext]_vars

\* The Synchronizer next to one connection worker at a time: a peripheral
\* registers, a route is made from it, it registers again on another port,
\* and '/routes info' is asked. port_sync runs in its own thread every five
\* seconds whatever the workers do and sleeps in between, so a worker that
\* waits for a lock gets it; new command lines may or may not arrive.
SyncCommands ==
  { << <<"/register">>, <<"A">>, <<"u1">>, <<"7", "1">> >>,
    << <<"/register">>, <<"A">>, <<"u1">>, <<"7", "2">> >>,
    << <<"/routes">>, <<"add">>, <<"R", "2">>, <<"A">>, <<"A">> >>,
    << <<"/routes">>, <<"info">> >> }

WorkerProgress ==
  \/ \E t \in Workers : register_peripheral(t)
  \/ \E t \in Workers : register_ack(t)
  \/ \E t \in Workers : wc_lock(t)
  \/ \E t \in Workers : wc_write(t)
  \/ \E t \in Workers : add_route_lookup(t)
  \/ \E t \in Workers : add_route_append(t)
  \/ \E t \in Workers : add_route_ok(t)
  \/ \E t \in Workers : write_routes(t)
  \/ \E t \in Workers : list_routes_lock(t)
  \/ \E t \in Workers : list_routes_name(t)
  \/ \E t \in Workers : Return(t)

SyncLiveNext ==
  \/ \E t \in Workers, command \in SyncCommands :
       /\ \A x \in Workers : pc[x] = "idle"
       /\ StartCommand(t, command)
  \/ WorkerProgress
  \/ port_sync_lock(Syncer)
  \/ port_sync(Syncer)

SyncLiveSpec ==
  /\ Init
  /\ [][SyncLiveNext]_vars
  /\ SF_vars(WorkerProgress)
  /\ SF_vars(port_sync_lock(Syncer))
  /\ SF_vars(port_sync(Syncer))

\* write_config, port_sync and '/routes info' next to each other: the two
\* connection workers register a peripheral, add a route and ask for the
\* table, each whenever it is free, while the Synchronizer makes its passes.
LockCommands ==
  { << <<"/register">>, <<"A">>, <<"u1">>, <<"7", "1">> >>,
    << <<"/routes">>, <<"add">>, <<"R", "2">>, <<"A">>, <<"A">> >>,
    << <<"/routes">>, <<"info">> >> }

LockNext ==
  \/ \E t \in Workers, command \in LockCommands : StartCommand(t, command)
  \/ \E t \in Workers : register_peripheral(t)
  \/ \E t \in Workers : register_ack(t)
  \/ \E t \in Workers : wc_lock(t)
  \/ \E t \in Workers : wc_write(t)
  \/ \E t \in Workers : add_route_lookup(t)
  \/ \E t \in Workers : add_route_append(t)
  \/ \E t \in Workers : add_route_ok(t)
  \/ \E t \in Workers : write_routes(t)
  \/ \E t \in Workers : list_routes_lock(t)
  \/ \E t \in Workers : list_routes_name(t)
  \/ \E t \in Workers : Return(t)
  \/ port_sync_lock(Syncer)
  \/ port_sync(Syncer)

LockSpec == Init /\ [][LockNext]_vars

\* Commands from every channel, one at a time: a line on a worker's
\* connection, or process_command called for the console or for the display
\* without a connection (conn=None, the parameter's default).
ChannelCommands ==
  { << <<"/register">>, <<"A">>, <<"u1">>, <<"7", "1">> >>,
    << <<"/register">>, <<"A">>, <<"u1">>, <<"x">> >>,
    << <<"/routes">>, <<"add">>, <<"R", "2">>, <<"A">>, <<"A">> >>,
    << <<"/routes">>, <<"info">> >>,
    << <<"/list">> >>,
    << <<"/reset">> >>,
    << <<"/bogus">> >> }

LocalSources == { "console", "curses" }

Callers == Workers \cup { Operator }

\* The console REPL or the display's command line hands a line to
\* process_command(command, source), on the operator's thread.
local_command(command, source) ==
  /\ source \in LocalSources
  /\ Dispatch(Operator, command, source)

ChannelNext ==
  \/ \E t \in Workers, command \in ChannelCommands :
       Starts(1, t) /\ StartCommand(t, command)
  \/ \E command \in ChannelCommands, source \in LocalSources :
       Starts(1, Operator) /\ local_command(command, source)
  \/ \E t \in Callers : register_peripheral(t)
  \/ \E t \in Callers : register_ack(t)
  \/ \E t \in Callers : wc_lock(t)
  \/ \E t \in Callers : wc_write(t)
  \/ \E t \in Callers : list_peripherals(t)
  \/ \E t \in Callers : add_route_lookup(t)
  \/ \E t \in Callers : add_route_append(t)
  \/ \E t \in Callers : add_route_ok(t)
  \/ \E t \in Callers : write_routes(t)
  \/ \E t \in Callers : list_routes_lock(t)
  \/ \E t \in Callers : list_routes_name(t)
  \/ \E t \in Callers : reset_clear(t)
  \/ \E t \in Callers : reset_remove_config(t)
  \/ \E t \in Callers : reset_remove_routes(t)
  \/ \E t \in Callers : reset_exec(t)
  \/ \E t \in Callers : Return(t)

ChannelSpec == Init /\ [][ChannelNext]_vars

\* Lines whose first word only begins with a command word ('/database',
\* '/registerfoo') or is no command at all, and a registration whose UUID
\* is not of the UUID shape, next to the commands that set up a peripheral
\* and a route; one line at a time.
PrefixCommands ==
  { << <<"/register">>, <<"A">>, <<"u1">>, <<"7", "1">> >>,
    << <<"/routes">>, <<"add">>, <<"R", "2">>, <<"A">>, <<"A">> >>,
    << <<"/data", "base">>, <<"u1">>, <<"hello">> >>,
    << <<"/data", "base">>, <<"x">>, <<"y">> >>,
    << <<"/register", "foo">>, <<"B">>, <<"u2">>, <<"7", "2">> >>,
    << <<"/register">>, <<"C">>, <<"not-a-uuid">>, <<"7", "1">> >>,
    << <<"/bogus">> >> }

PrefixNext ==
  \/ \E t \in Workers, command \in PrefixCommands :
       Starts(1, t) /\ StartCommand(t, command)
  \/ \E t \in Workers : register_peripheral(t)
  \/ \E t \in Workers : register_ack(t)
  \/ \E t \in Workers : wc_lock(t)
  \/ \E t \in Workers : wc_write(t)
  \/ \E t \in Workers : add_route_lookup(t)
  \/ \E t \in Workers : add_route_append(t)
  \/ \E t \in Workers : add_route_ok(t)
  \/ \E t \in Workers : write_routes(t)
  \/ \E t \in Workers : hid_reload(t)
  \/ \E t \in Workers : hid_match(t)
  \/ \E t \in Workers : hid_forward_fail(t)
  \/ \E t \in Workers : hid_forward_ok(t)
  \/ \E t \in Workers : hid_names(t)
  \/ \E t \in Workers : Return(t)

PrefixSpec == Init /\ [][PrefixNext]_vars

\* The display's command line is opened: in_command_mode.set().
enter_command_mode ==
  /\ pc[Operator] = "idle"
  /\ ~in_command_mode
  /\ in_command_mode' = TRUE
  /\ UNCHANGED << peripherals, cfgFile, routes, routesFile, pLock, rLock, cLock,
                  now, pc, cmd, loc, pref, rref, out, dconn, sched >>

\* '/exit' and two other commands from every channel, one at a time; the
\* display passes lines to process_command while its command line is open.
ExitCommands ==
  { << <<"/exit">> >>,
    << <<"/list">> >>,
    << <<"/register">>, <<"A">>, <<"u1">>, <<"7", "1">> >>,
    << <<"/register">>, <<"B">>, <<"u2">>, <<"7", "2">> >> }

ExitNext ==
  \/ \E t \in Workers, command \in ExitCommands :
       Starts(1, t) /\ StartCommand(t, command)
  \/ Starts(1, Operator) /\ enter_command_mode
  \/ \E command \in ExitCommands, source \in LocalSources :
       /\ Starts(1, Operator)
       /\ source = "curses" => in_command_mode
       /\ local_command(command, source)
  \/ \E t \in Callers : register_peripheral(t)
  \/ \E t \in Callers : register_ack(t)
  \/ \E t \in Callers : wc_lock(t)
  \/ \E t \in Callers : wc_write(t)
  \/ \E t \in Callers : list_peripherals(t)
  \/ \E t \in Callers : Return(t)

ExitSpec == Init /\ [][ExitNext]_vars

\* A data connection next to the control connection that sets up a
\* peripheral and a route; a command runs while no forward is in progress.
DataSetup ==
  { << <<"/register">>, <<"A">>, <<"u1">>, <<"7", "1">> >>,
    << <<"/routes">>, <<"add">>, <<"R", "2">>, <<"A">>, <<"A">> >> }

DataCallers == Workers \cup { DataWorker }

DataNext ==
  \/ \E t \in Workers, command \in DataSetup :
       Starts(1, t) /\ StartCommand(t, command)
  \/ \E stream \in DataStreams : data_connect(stream)
  \/ \E n \in 1..3 : Starts(1, DataWorker) /\ data_recv(n)
  \/ data_peer_close
  \/ data_eof
  \/ data_line
  \/ data_resume
  \/ \E t \in Workers : register_peripheral(t)
  \/ \E t \in Workers : register_ack(t)
  \/ \E t \in Workers : wc_lock(t)
  \/ \E t \in Workers : wc_write(t)
  \/ \E t \in Workers : add_route_lookup(t)
  \/ \E t \in Workers : add_route_append(t)
  \/ \E t \in Workers : add_route_ok(t)
  \/ \E t \in DataCallers : write_routes(t)
  \/ hid_reload(DataWorker)
  \/ hid_match(DataWorker)
  \/ hid_forward_fail(DataWorker)
  \/ hid_forward_ok(DataWorker)
  \/ hid_names(DataWorker)
  \/ \E t \in Workers : Return(t)

DataSpec == Init /\ [][DataNext]_vars

\* Route commands, forwards and Synchronizer passes next to each other: once
\* a peripheral is registered (alone), the two connection workers add and
\* remove routes and forward data, each whenever it is free, while the
\* Synchronizer makes its passes.
RouteRaceCommands ==
  { << <<"/register">>, <<"A">>, <<"u1">>, <<"7", "1">> >>,
    << <<"/routes">>, <<"add">>, <<"R", "2">>, <<"A">>, <<"A">> >>,
    << <<"/routes">>, <<"add">>, <<"R", "3">>, <<"A">>, <<"A">> >>,
    << <<"/routes">>, <<"remove">>, <<"R", "2">> >>,
    << <<"/data">>, <<"u1">>, <<"hello">> >> }

RouteRaceNext ==
  \/ \E t \in Workers, command \in RouteRaceCommands :
       /\ IF StartsWith(command[1], <<"/register">>)
          THEN Starts(1, t)
          ELSE Starts(MaxActive, t)
       /\ StartCommand(t, command)
  \/ \E t \in Workers : register_peripheral(t)
  \/ \E t \in Workers : register_ack(t)
  \/ \E t \in Workers : wc_lock(t)
  \/ \E t \in Workers : wc_write(t)
  \/ \E t \in Workers : add_route_lookup(t)
  \/ \E t \in Workers : add_route_append(t)
  \/ \E t \in Workers : add_route_ok(t)
  \/ \E t \in Workers : remove_route(t)
  \/ \E t \in Workers : remove_route_ok(t)
  \/ \E t \in Workers : write_routes(t)
  \/ \E t \in Workers : hid_reload(t)
  \/ \E t \in Workers : hid_match(t)
  \/ \E t \in Workers : hid_forward_fail(t)
  \/ \E t \in Workers : hid_forward_ok(t)
  \/ \E t \in Workers : hid_names(t)
  \/ \E t \in Workers : Return(t)
  \/ port_sync_lock(Syncer)
  \/ port_sync(Syncer)

RouteRaceSpec == Init /\ [][RouteRaceNext]_vars

\* Forwards next to '/routes info', which keeps routes_lock over several
\* steps: a registration or a route add runs alone, forwards and listings
\* overlap.
StampCommands ==
  ForwardCommands \cup { << <<"/routes">>, <<"info">> >> }

StampNext ==
  \/ \E t \in Workers, command \in StampCommands :
       /\ IF StartsWith(command[1], <<"/data">>) \/ IsPrefix(<< <<"/routes">>, <<"info">> >>, command)
          THEN Starts(MaxActive, t)
          ELSE Starts(1, t)
       /\ StartCommand(t, command)
  \/ \E t \in Workers : register_peripheral(t)
  \/ \E t \in Workers : register_ack(t)
  \/ \E t \in Workers : wc_lock(t)
  \/ \E t \in Workers : wc_write(t)
  \/ \E t \in Workers : add_route_lookup(t)
  \/ \E t \in Workers : add_route_append(t)
  \/ \E t \in Workers : add_route_ok(t)
  \/ \E t \in Workers : write_routes(t)
  \/ \E t \in Workers : list_routes_lock(t)
  \/ \E t \in Workers : list_routes_name(t)
  \/ \E t \in Workers : hid_reload(t)
  \/ \E t \in Workers : hid_match(t)
  \/ \E t \in Workers : hid_forward_fail(t)
  \/ \E t \in Workers : hid_forward_ok(t)
  \/ \E t \in Workers : hid_names(t)
  \/ \E t \in Workers : Return(t)

StampSpec == Init /\ [][StampNext]_vars

\* Forwards next to a '/reset': a registration or a route add runs alone, a
\* forward and a reset overlap.
ResetForwardCommands ==
  ForwardCommands \cup { << <<"/reset">> >> }

ResetForwardNext ==
  \/ \E t \in Workers, command \in ResetForwardCommands :
       /\ IF StartsWith(command[1], <<"/data">>) \/ command = << <<"/reset">> >>
          THEN Starts(MaxActive, t)
          ELSE Starts(1, t)
       /\ StartCommand(t, command)
  \/ \E t \in Workers : register_peripheral(t)
  \/ \E t \in Workers : register_ack(t)
  \/ \E t \in Workers : wc_lock(t)
  \/ \E t \in Workers : wc_write(t)
  \/ \E t \in Workers : add_route_lookup(t)
  \/ \E t \in Workers : add_route_append(t)
  \/ \E t \in Workers : add_route_ok(t)
  \/ \E t \in Workers : write_routes(t)
  \/ \E t \in Workers : hid_reload(t)
  \/ \E t \in Workers : hid_match(t)
  \/ \E t \in Workers : hid_forward_fail(t)
  \/ \E t \in Workers : hid_forward_ok(t)
  \/ \E t \in Workers : hid_names(t)
  \/ \E t \in Workers : reset_clear(t)
  \/ \E t \in Workers : reset_remove_config(t)
  \/ \E t \in Workers : reset_remove_routes(t)
  \/ \E t \in Workers : reset_exec(t)
  \/ \E t \in Workers : Return(t)

ResetForwardSpec == Init /\ [][ResetForwardNext]_vars

\* The data connection with everything conn.recv can do: return bytes,
\* return b'' after the peer has closed, time out, or fail.
ConnNext ==
  \/ DataNext
  \/ data_timeout
  \/ data_io_error

ConnSpec == Init /\ [][ConnNext]_vars

\* A step of the data connection's worker.
DataWorkerStep ==
  \/ \E n \in 1..3 : Starts(1, DataWorker) /\ data_recv(n)
  \/ data_eof
  \/ data_line
  \/ data_resume
  \/ write_routes(DataWorker)
  \/ hid_reload(DataWorker)
  \/ hid_match(DataWorker)
  \/ hid_forward_fail(DataWorker)
  \/ hid_forward_ok(DataWorker)
  \/ hid_names(DataWorker)

\* The scheduler lets the worker run, however often commands on the control
\* connection come in between; the control connection's workers finish what
\* they started.
ConnLiveSpec ==
  /\ ConnSpec
  /\ SF_vars(DataWorkerStep)
  /\ SF_vars(WorkerProgress)

\* The two periodic loops with the time they take, next to the commands of
\* the connection workers, each of which starts when no probe, no lock of
\* the Synchronizer and no other command is in progress.
PassNext ==
  \/ \E t \in Workers, command \in LockCommands : Starts(1, t) /\ StartCommand(t, command)
  \/ \E t \in Workers : register_peripheral(t)
  \/ \E t \in Workers : register_ack(t)
  \/ \E t \in Workers : wc_lock(t)
  \/ \E t \in Workers : wc_write(t)
  \/ \E t \in Workers : add_route_lookup(t)
  \/ \E t \in Workers : add_route_append(t)
  \/ \E t \in Workers : add_route_ok(t)
  \/ \E t \in Workers : write_routes(t)
  \/ \E t \in Workers : list_routes_lock(t)
  \/ \E t \in Workers : list_routes_name(t)
  \/ interval_elapses
  \/ scan_pass_begin
  \/ scan_probe_fail
  \/ \E lines \in ProbeResponses : scan_probe_response(lines)
  \/ process_response(Scanner)
  \/ peripherals_read(Scanner)
  \/ scan_pass_end
  \/ sync_pass_begin
  \/ sync_pass_lock
  \/ sync_pass_end
  \/ \E t \in Workers \cup { Scanner } : Return(t)

PassSpec == Init /\ [][PassNext]_vars

\* As RouteRaceSpec, but the registration and the add of R_2 run alone:
\* while a removal of R_2 is in progress nobody adds R_2 again, and nobody
\* ever removes R_3.
IsSetup(command) ==
  /\ Len(command) > 0
  /\ \/ StartsWith(command[1], <<"/register">>)
     \/ IsPrefix(<< <<"/routes">>, <<"add">>, <<"R", "2">> >>, command)

AckNext ==
  \/ \E t \in Workers, command \in RouteRaceCommands :
       /\ IF IsSetup(command) THEN Starts(1, t) ELSE Starts(MaxActive, t)
       /\ \A x \in Workers : ~IsSetup(cmd[x])
       /\ StartCommand(t, command)
  \/ \E t \in Workers : register_peripheral(t)
  \/ \E t \in Workers : register_ack(t)
  \/ \E t \in Workers : wc_lock(t)
  \/ \E t \in Workers : wc_write(t)
  \/ \E t \in Workers : add_route_lookup(t)
  \/ \E t \in Workers : add_route_append(t)
  \/ \E t \in Workers : add_route_ok(t)
  \/ \E t \in Workers : remove_route(t)
  \/ \E t \in Workers : remove_route_ok(t)
  \/ \E t \in Workers : write_routes(t)
  \/ \E t \in Workers : hid_reload(t)
  \/ \E t \in Workers : hid_match(t)
  \/ \E t \in Workers : hid_forward_fail(t)
  \/ \E t \in Workers : hid_forward_ok(t)
  \/ \E t \in Workers : hid_names(t)
  \/ \E t \in Workers : Return(t)
  \/ port_sync_lock(Syncer)
  \/ port_sync(Syncer)

AckSpec == Init /\ [][AckNext]_vars

(* ------------------------- registry properties ------------------------ *)

\* The steps of register_peripheral that follow its add-or-update.
AfterUpsert == { "wc_lock", "wc_write", "reg_ack", "done" }

\* C1: in every reachable state the registry holds at most one entry per
\* uuid, under any interleaving of discovery, /register calls of concurrent
\* connection workers, operator removal and reset.
C1_UuidUnique ==
  \A i, j \in 1..Len(peripherals) :
    peripherals[i].uuid = peripherals[j].uuid => i = j

\* Two workers have both registered the same uuid next to another entry.
C1_Witness ==
  \E t1, t2 \in Workers :
    /\ t1 # t2
    /\ Len(cmd[t1]) = 4 /\ cmd[t1][1] = <<"/register">>
    /\ Len(cmd[t2]) = 4 /\ cmd[t2][1] = <<"/register">>
    /\ cmd[t1][3] = cmd[t2][3]
    /\ pc[t1] \in AfterUpsert /\ pc[t2] \in AfterUpsert
    /\ Len(peripherals) >= 2

\* C2: in every reachable state no two registry entries have the same name.
C2_NameUnique ==
  \A i, j \in 1..Len(peripherals) :
    peripherals[i].name = peripherals[j].name => i = j

\* A discovery response of at least three lines whose second line has the
\* shape of a uuid.
WellFormedResponse(lines) ==
  Len(lines) >= 3 /\ lines[2] \in { <<"u1">>, <<"u2">>, <<"u3">> }

HasUuid(ps, u) == \E i \in 1..Len(ps) : ps[i].uuid = u

\* The entries named name or name_<something>.
SameNameCount(ps, name) ==
  Cardinality({ i \in 1..Len(ps) :
                  /\ Len(ps[i].name) >= Len(name)
                  /\ SubSeq(ps[i].name, 1, Len(name)) = name })

\* The text of a small positive number.
Numeral(n) == IF n = 2 THEN "2" ELSE IF n = 3 THEN "3" ELSE IF n = 4 THEN "4" ELSE "5"

\* process_response has handled the response the scanner holds.
ResponseHandled == pc[Scanner] = "pr" /\ pc'[Scanner] # "pr"

\* C3: a well-formed discovery response whose uuid is not in the registry
\* adds exactly one entry; the entry is named name when no entry is named
\* name or name_..., and name_N+1 when N such entries exist.
C3_NewUuidAddsOne ==
  [][LET lines == loc[Scanner].rows
         N == SameNameCount(peripherals, lines[1])
     IN (ResponseHandled /\ WellFormedResponse(lines) /\ ~HasUuid(peripherals, lines[2]))
        => /\ Len(peripherals') = Len(peripherals) + 1
           /\ SubSeq(peripherals', 1, Len(peripherals)) = peripherals
           /\ peripherals'[Len(peripherals')].uuid = lines[2]
           /\ peripherals'[Len(peripherals')].name =
                IF N = 0 THEN lines[1] ELSE Append(lines[1], Numeral(N + 1))]_vars

\* The scanner holds a well-formed response with a uuid the registry lacks,
\* while the registry has an entry of the same name.
C3_Witness ==
  /\ pc[Scanner] = "pr"
  /\ WellFormedResponse(loc[Scanner].rows)
  /\ ~HasUuid(peripherals, loc[Scanner].rows[2])
  /\ SameNameCount(peripherals, loc[Scanner].rows[1]) > 0

\* C4: a well-formed discovery response whose uuid is in the registry
\* leaves the number of entries unchanged and strictly increases that
\* entry's last-seen time.
C4_KnownUuidRefreshed ==
  [][LET lines == loc[Scanner].rows
     IN (ResponseHandled /\ WellFormedResponse(lines) /\ HasUuid(peripherals, lines[2]))
        => /\ Len(peripherals') = Len(peripherals)
           /\ \A i \in 1..Len(peripherals) :
                peripherals[i].uuid = lines[2]
                => /\ peripherals'[i].uuid = lines[2]
                   /\ peripherals'[i].last_seen > peripherals[i].last_seen]_vars

\* The scanner holds a well-formed response with a uuid of the registry.
C4_Witness ==
  /\ pc[Scanner] = "pr"
  /\ WellFormedResponse(loc[Scanner].rows)
  /\ HasUuid(peripherals, loc[Scanner].rows[2])

\* The configured data-port range, written out.
ConfiguredRange == << 61, 62 >>

DecimalDigits == { "0", "1", "2", "3", "4", "5", "6", "7", "8", "9" }

\* A /register line with a name, a uuid and a port text that is no integer.
NonIntegerPort(c) ==
  /\ Len(c) >= 4
  /\ c[1] = <<"/register">>
  /\ \/ Len(c) > 4
     \/ c[4] = <<>>
     \/ \E k \in 1..Len(c[4]) : c[4][k] \notin DecimalDigits

\* C6: /register with a port argument that is not an integer is answered
\* with the port-format error, leaves the registry unchanged in memory and
\* on disk, and sends no /ack.
C6_BadPortRejected ==
  [][\A t \in Workers :
       (pc[t] = "idle" /\ pc'[t] # "idle" /\ NonIntegerPort(cmd'[t]))
       => /\ pc'[t] = "done"
          /\ out'[t].resp = << [kind |-> "text", body |-> "Port must be an integer."] >>
          /\ peripherals' = peripherals
          /\ cfgFile' = cfgFile]_vars

\* A worker has answered such a line while the registry has entries.
C6_Witness ==
  \E t \in Workers :
    /\ pc[t] = "done"
    /\ NonIntegerPort(cmd[t])
    /\ peripherals # <<>>
    /\ cfgFile.exists /\ cfgFile.doc # <<>>

(* -------------------------- route properties -------------------------- *)

TextReply(m) == [kind |-> "text", body |-> m]

IsRoutesAdd(c) == Len(c) >= 2 /\ c[1] = <<"/routes">> /\ c[2] = <<"add">>
IsRoutesRemove(c) == Len(c) >= 2 /\ c[1] = <<"/routes">> /\ c[2] = <<"remove">>
IsRoutesInfo(c) == Len(c) = 2 /\ c[1] = <<"/routes">> /\ c[2] = <<"info">>

HasName(ps, n) == \E i \in 1..Len(ps) : ps[i].name = n
HasRoute(rs, n) == \E i \in 1..Len(rs) : rs[i].name = n

\* C7: when '/routes add R A B' has succeeded, a following '/routes info'
\* lists R with the uuids of peripherals named A and B as source and
\* destination and with their current ports; '/routes info' answers with
\* that listing.
C7_AddThenInfo ==
  \A t \in Workers :
    /\ ( /\ pc[t] = "done"
         /\ IsRoutesAdd(cmd[t])
         /\ out[t].resp = << TextReply("Route added successfully.") >> )
       => LET info == list_routes(routes, peripherals)
          IN \E k \in 1..Len(info), a, b \in 1..Len(peripherals) :
               /\ info[k].name = cmd[t][3]
               /\ peripherals[a].name = cmd[t][4]
               /\ peripherals[b].name = cmd[t][5]
               /\ info[k].incoming = peripherals[a].uuid
               /\ info[k].outgoing = peripherals[b].uuid
               /\ info[k].incoming_port = peripherals[a].port
               /\ info[k].outgoing_port = peripherals[b].port
    /\ (pc[t] = "done" /\ IsRoutesInfo(cmd[t]) /\ routes # <<>>)
       => out[t].resp = << [kind |-> "routes",
                            body |-> list_routes(routes, peripherals)] >>

\* A route between two different peripherals has just been added.
C7_Witness ==
  \E t \in Workers :
    /\ pc[t] = "done"
    /\ IsRoutesAdd(cmd[t])
    /\ out[t].resp = << TextReply("Route added successfully.") >>
    /\ cmd[t][4] # cmd[t][5]
    /\ HasRoute(routes, cmd[t][3])

\* C8: when '/routes remove R' has succeeded, a following '/routes info' does
\* not list R and the persisted route file does not contain R.
C8_RemoveThenInfo ==
  \A t \in Workers :
    ( /\ pc[t] = "done"
      /\ IsRoutesRemove(cmd[t])
      /\ out[t].resp = << TextReply("Route removed successfully.") >> )
    => /\ \A k \in 1..Len(list_routes(routes, peripherals)) :
            list_routes(routes, peripherals)[k].name # cmd[t][3]
       /\ routesFile.exists
       /\ \A k \in 1..Len(routesFile.doc) :
            \A m \in 1..Len(routesFile.doc[k]) :
              routesFile.doc[k][m][1] = "name"
              => routesFile.doc[k][m][2] # <<"str", cmd[t][3]>>

\* A route has just been removed while another one stays.
C8_Witness ==
  \E t \in Workers :
    /\ pc[t] = "done"
    /\ IsRoutesRemove(cmd[t])
    /\ out[t].resp = << TextReply("Route removed successfully.") >>
    /\ routes # <<>>

RouteFailures ==
  { TextReply("Incoming peripheral not found."),
    TextReply("Outgoing peripheral not found."),
    TextReply("Route already exists."),
    TextReply("Route not found."),
    TextReply("Usage: /routes add"),
    TextReply("Usage: /routes remove") }

\* The cases in which '/routes add' and '/routes remove' are to fail.
RouteCommandFails(c) ==
  \/ /\ IsRoutesAdd(c)
     /\ \/ Len(c) # 5
        \/ ~HasName(peripherals, c[4])
        \/ ~HasName(peripherals, c[5])
        \/ HasRoute(routes, c[3])
  \/ /\ IsRoutesRemove(c)
     /\ (Len(c) # 3 \/ ~HasRoute(routes, c[3]))

\* C9: '/routes add' with a source or destination name that matches no
\* registered peripheral or with a route name that exists, '/routes remove'
\* with a name no route has, and either of them with the wrong number of
\* arguments: the command ends with a failure answer and every step of it
\* leaves the route table unchanged in memory and on disk.
C9_FailureChangesNothing ==
  [][\A t \in Workers :
       ( /\ pc'[t] # pc[t]
         /\ pc[t] \in { "idle", "ar_lookup", "ar_add", "rr" }
         /\ RouteCommandFails(cmd'[t]) )
       => /\ routes' = routes
          /\ routesFile' = routesFile
          /\ pc'[t] \in { "ar_lookup", "ar_add", "rr", "done" }
          /\ pc'[t] = "done"
             => \E f \in RouteFailures : out'[t].resp = << f >>]_vars

\* A worker was refused a route whose name exists.
C9_Witness ==
  \E t \in Workers :
    /\ pc[t] = "done"
    /\ IsRoutesAdd(cmd[t])
    /\ out[t].resp = << TextReply("Route already exists.") >>
    /\ routesFile.exists /\ routesFile.doc # <<>>

IsData(c) == Len(c) >= 3 /\ c[1] = <<"/data">>

\* No route of the persisted table, which the forward reloads, has u as its
\* source.
NoRouteFrom(u) ==
  /\ routesFile.exists
  /\ \A k \in 1..Len(routesFile.doc) :
       \A m \in 1..Len(routesFile.doc[k]) :
         routesFile.doc[k][m][1] = "incoming"
         => routesFile.doc[k][m][2] # <<"str", u>>

LastUsedValues(rs) == [k \in 1..Len(rs) |-> rs[k].last_used]

\* C10: '/data <uuid> <payload>' with a uuid that is the source of no route
\* logs that there is no route, opens no outbound connection, writes no
\* response to the sender and changes no route's last-used value.
C10_NoRouteNoEffect ==
  [][\A t \in Workers :
       ( /\ pc'[t] # pc[t]
         /\ pc[t] \in { "idle", "hid", "hid_match" }
         /\ IsData(cmd'[t])
         /\ NoRouteFrom(cmd'[t][2]) )
       => /\ out'[t].resp = <<>>
          /\ out'[t].conns = <<>>
          /\ LastUsedValues(routes') = LastUsedValues(routes)
          /\ routesFile' = routesFile
          /\ pc'[t] \in { "hid", "hid_match", "done" }
          /\ pc'[t] = "done" => out'[t].logs = << "no_route" >>]_vars

\* A forward found no route from its sender although a route to the sender
\* exists and has been used.
C10_Witness ==
  \E t \in Workers :
    /\ pc[t] = "done"
    /\ IsData(cmd[t])
    /\ NoRouteFrom(cmd[t][2])
    /\ out[t].logs = << "no_route" >>
    /\ \E k \in 1..Len(routes) :
         routes[k].outgoing = cmd[t][2] /\ routes[k].last_used # 0

(* ------------------------- forward properties ------------------------- *)

\* The routes of the table whose source is u.
RoutesFrom(u) == { k \in 1..Len(routes) : routes[k].incoming = u }

\* C11: a forward makes exactly one delivery attempt for every route whose
\* source is the sender and none for any other route; a failed attempt does
\* not keep the remaining matching routes from being tried, and a failed
\* delivery is tried once only.
C11_OneAttemptPerMatch ==
  \A t \in Workers :
    (pc[t] = "done" /\ IsData(cmd[t]))
    => LET attempts == out[t].conns
       IN /\ Len(attempts) = Cardinality(RoutesFrom(cmd[t][2]))
          /\ \A k \in RoutesFrom(cmd[t][2]) :
               Cardinality({ j \in 1..Len(attempts) :
                               attempts[j].route = routes[k].name }) = 1
          /\ \A j \in 1..Len(attempts) :
               \E k \in RoutesFrom(cmd[t][2]) : attempts[j].route = routes[k].name

\* A forward over two routes whose first delivery failed and whose second
\* one was made.
C11_Witness ==
  \E t \in Workers :
    /\ pc[t] = "done"
    /\ IsData(cmd[t])
    /\ Len(out[t].conns) = 2
    /\ ~out[t].conns[1].sent
    /\ out[t].conns[2].sent

\* The route table routes.cf holds.
PersistedRoutes == IF routesFile.exists THEN JsonLoadRoutes(routesFile.doc) ELSE <<>>

\* C12: when a forward has delivered a payload on route R, the persisted
\* route table holds R with a last-used time that is not older than that
\* delivery once the forward has returned, also when forwards of several
\* connection workers run at the same time.
C12_StampPersisted ==
  \A t \in Workers :
    (pc[t] = "done" /\ IsData(cmd[t]))
    => \A j \in 1..Len(out[t].conns) :
         out[t].conns[j].sent
         => \E k \in 1..Len(PersistedRoutes) :
              /\ PersistedRoutes[k].name = out[t].conns[j].route
              /\ PersistedRoutes[k].last_used # 0
              /\ PersistedRoutes[k].last_used >= out[t].conns[j].at

\* A forward has returned after a delivery while another forward is in
\* progress.
C12_Witness ==
  \E t, x \in Workers :
    /\ t # x
    /\ pc[t] = "done" /\ IsData(cmd[t])
    /\ pc[x] # "idle" /\ IsData(cmd[x])
    /\ \E j \in 1..Len(out[t].conns) : out[t].conns[j].sent

\* C13: a forward takes its routes and their destination ports from the
\* table routes.cf holds when the call starts, not from the table memory held
\* before the call: the reload makes the persisted table the table in
\* memory, every delivery attempt goes to the persisted destination port of
\* a persisted route from the sender, and there are as many attempts as
\* such routes.
C13_ForwardUsesFile ==
  [][\A t \in Workers :
       /\ (pc[t] = "hid" /\ pc'[t] # "hid") => routes' = PersistedRoutes
       /\ (IsData(cmd[t]) /\ Len(out'[t].conns) = Len(out[t].conns) + 1)
          => LET e == out'[t].conns[Len(out'[t].conns)]
             IN \E k \in 1..Len(PersistedRoutes) :
                  /\ PersistedRoutes[k].name = e.route
                  /\ PersistedRoutes[k].incoming = cmd[t][2]
                  /\ PersistedRoutes[k].outgoing_port = e.port
       /\ (pc[t] # "done" /\ pc'[t] = "done" /\ IsData(cmd'[t]))
          => Len(out'[t].conns) =
               Cardinality({ k \in 1..Len(PersistedRoutes) :
                               PersistedRoutes[k].incoming = cmd'[t][2] })]_vars

\* A forward is at its reload while the table in memory holds, for a route
\* from the sender, a destination port other than the persisted one.
C13_Witness ==
  \E t \in Workers :
    /\ pc[t] = "hid"
    /\ \E k \in 1..Len(PersistedRoutes), m \in 1..Len(routes) :
         /\ routes[m].name = PersistedRoutes[k].name
         /\ routes[m].incoming = cmd[t][2]
         /\ routes[m].outgoing_port # PersistedRoutes[k].outgoing_port

(* ----------------------- synchronizer properties ---------------------- *)

\* The registry orch.cf holds.
PersistedRegistry ==
  IF cfgFile.exists THEN JsonLoadPeripherals(cfgFile.doc) ELSE <<>>

\* Every route of rs that names a peripheral of ps caches that peripheral's
\* port, as source and as destination.
PortsAgree(rs, ps) ==
  \A k \in 1..Len(rs), i \in 1..Len(ps) :
    /\ rs[k].incoming = ps[i].uuid => rs[k].incoming_port = ps[i].port
    /\ rs[k].outgoing = ps[i].uuid => rs[k].outgoing_port = ps[i].port

\* C14: at the end of every Synchronizer pass, each route of routes.cf whose
\* source (destination) uuid is in the registry of orch.cf caches that
\* peripheral's persisted port as its source (destination) port.
C14_PassRepairsFile ==
  [][(pc[Syncer] = "sync" /\ pc'[Syncer] = "idle")
     => PortsAgree(PersistedRoutes, PersistedRegistry)']_vars

\* A pass has repaired routes.cf: the file agrees with the registry while
\* the table in memory still holds the port the route was created with.
C14_Witness ==
  /\ \A t \in Threads : pc[t] = "idle"
  /\ PersistedRoutes # <<>>
  /\ PortsAgree(PersistedRoutes, PersistedRegistry)
  /\ \E k \in 1..Len(PersistedRoutes), m \in 1..Len(routes) :
       /\ routes[m].name = PersistedRoutes[k].name
       /\ routes[m].outgoing_port # PersistedRoutes[k].outgoing_port

\* C15: if a peripheral's port changes in the registry and the registry then
\* stops changing, then eventually every route that names the peripheral
\* caches its current port, in routes.cf and in the table '/routes info'
\* reports, and it stays so.
C15_PortsConverge ==
  <>[][peripherals' = peripherals]_vars
  => <>[](/\ PortsAgree(PersistedRoutes, peripherals)
          /\ PortsAgree(list_routes(routes, peripherals), peripherals))

\* The peripheral of a route has registered again on another port.
C15_Witness ==
  /\ \A t \in Threads : pc[t] = "idle"
  /\ now = 2
  /\ routes # <<>>
  /\ ~PortsAgree(routes, peripherals)

(* --------------------------- lock properties -------------------------- *)

\* C16: no thread ever asks for the registry lock (peripherals_lock) while
\* it holds the route lock (routes_lock).
C16_NoRegistryLockUnderRouteLock ==
  \A t \in Threads : rLock = t => ~AsksPeripheralsLock(t)

\* '/routes info' is inside list_routes' `with routes_lock:` and about to
\* call get_peripheral_name_by_uuid for the first route's source.
C16_Witness ==
  \E t \in Workers :
     /\ IsRoutesInfo(cmd[t])
     /\ pc[t] = "lr_name"
     /\ loc[t].i = 1
     /\ rLock = t

\* The thread waits for a lock that a thread of the set S holds.
WaitsOn(t, S) ==
  \/ AsksPeripheralsLock(t) /\ pLock \in S
  \/ AsksConfigLock(t) /\ cLock \in S
  \/ AsksRoutesLock(t) /\ rLock \in S

\* C17: write_config (registry lock, then config lock), port_sync (config
\* lock, then route lock) and '/routes info' (route lock, then registry
\* lock) never reach a state in which some threads wait for each other's
\* locks for ever.
C17_NoDeadlock ==
  ~ \E S \in (SUBSET Threads) \ { {} } : \A t \in S : WaitsOn(t, S)

\* The three operations overlap, each inside its first lock: a registration
\* in write_config, the Synchronizer in port_sync, '/routes info' in
\* list_routes.
C17_Witness ==
  \E a, b \in Workers :
     /\ pc[a] = "wc_write" /\ pLock = a
     /\ pc[Syncer] = "sync" /\ cLock = Syncer
     /\ pc[b] = "lr_name" /\ rLock = b

(* -------------------------- reset properties -------------------------- *)

\* The step is the os.execv of a reset.
Restarts == \E t \in Threads : pc[t] = "rs_exec" /\ pc'[t] = "idle"

\* C18: at the moment a reset restarts the process the in-memory registry is
\* empty and neither orch.cf nor routes.cf exists, so the restarted process
\* begins with an empty registry and an empty route table; also when a
\* registration or a discovery upsert runs at the same time.
C18_ResetStartsEmpty ==
  [][Restarts => /\ peripherals = <<>>
                 /\ ~cfgFile.exists
                 /\ ~routesFile.exists
                 /\ peripherals' = <<>>
                 /\ routes' = <<>>]_vars

\* A reset is about to restart the process while another connection is
\* inside a registration.
C18_Witness ==
  \E t, x \in Threads :
     /\ t # x
     /\ pc[t] = "rs_exec"
     /\ pc[x] # "idle"
     /\ IsRegistration(cmd[x])

(* ------------------------- response properties ----------------------- *)

\* The channel a thread's command arrived on: the console, the display, or
\* the connection of the worker.
ArrivalChannel(t) ==
  IF loc[t].source = "console" THEN "console"
  ELSE IF loc[t].source = "curses" THEN "display"
  ELSE t

\* C19: every response a command produces is written to the channel the
\* command arrived on (the console, the display, the originating
\* connection) and to no other; /reset and /register included.
C19_SameChannel ==
  \A t \in Callers :
     loc[t].source # ""
       => \A i \in 1..Len(out[t].chans) : out[t].chans[i] = ArrivalChannel(t)

\* A '/reset' that came from the console has produced its response and is
\* about to restart the process.
C19_Witness ==
  /\ pc[Operator] = "rs_exec"
  /\ loc[Operator].source = "console"
  /\ cmd[Operator] = << <<"/reset">> >>
  /\ Len(out[Operator].resp) = 1

(* ------------------------- dispatch properties ------------------------ *)

\* The command words of the protocol.
CommandWords ==
  { <<"/data">>, <<"/register">>, <<"/help">>, <<"/list">>, <<"/available">>,
    <<"/routes">>, <<"/reset">>, <<"/exit">> }

\* The line's first word is none of the command words.
Undefined(c) == c # <<>> /\ c[1] \notin CommandWords

\* C20: a line that is not one of the defined commands, also one that only
\* begins with a command word ('/database x y', '/registerfoo a b 1'), is
\* answered with 'unknown command', and while it is processed neither the
\* registry nor the route table changes.
C20_UnknownCommand ==
  [][\A t \in Workers :
       /\ (pc[t] = "idle" /\ pc'[t] # "idle" /\ Undefined(cmd'[t]))
            => /\ pc'[t] = "done"
               /\ out'[t].resp = << TextReply("Unknown command.") >>
       /\ (Undefined(cmd[t]) /\ pc'[t] # pc[t])
            => peripherals' = peripherals /\ routes' = routes]_vars

\* '/registerfoo B u2 72' has been processed to its end.
C20_Witness ==
  \E t \in Workers :
     /\ pc[t] = "done"
     /\ cmd[t] # <<>>
     /\ cmd[t][1] = <<"/register", "foo">>

(* --------------------------- /exit properties ------------------------- *)

\* The process has ended.
Terminated == \A x \in Threads : pc[x] = "exited"

\* The step hands '/exit' to process_command on thread t.
ExitArrives(t) == pc[t] = "idle" /\ cmd'[t] = << <<"/exit">> >>

\* C21: '/exit' from the display clears command mode and makes the handler
\* signal stop without ending the process; from the console it ends the
\* process; from a network connection it neither ends the process nor ends
\* any session.
C21_ExitPerChannel ==
  [][\A t \in Callers :
       ExitArrives(t)
         => /\ loc'[t].source = "curses"
                => ~in_command_mode' /\ ~out'[t].cont /\ ~Terminated'
            /\ loc'[t].source = "console" => Terminated'
            /\ loc'[t].source = "port"
                => /\ ~Terminated'
                   /\ out'[t].cont
                   /\ in_command_mode' = in_command_mode]_vars

\* '/exit' from the display has been answered while command mode was open
\* before it.
C21_Witness ==
  /\ pc[Operator] = "done"
  /\ cmd[Operator] = << <<"/exit">> >>
  /\ loc[Operator].source = "curses"
  /\ ~in_command_mode

(* ---------------------- data connection properties ------------------- *)

\* The complete lines of a text, in order.
RECURSIVE CompleteLines(_)
CompleteLines(text) ==
  LET at == FirstOf({ i \in 1..Len(text) : text[i] = LineFeed })
  IN IF at = 0 THEN <<>>
     ELSE << SubSeq(text, 1, at - 1) >>
            \o CompleteLines(SubSeq(text, at + 1, Len(text)))

\* The lines the peer has sent on the data connection.
SentLines == CompleteLines(Decode(dconn.sent).text)

\* The data connection has ended and its thread has left its loop.
DataEnded == dconn.sent # <<>> /\ ~dconn.open /\ pc[DataWorker] = "idle"

\* C22: on a data connection the first line is the connection's peripheral
\* UUID, for as long as the connection lives, and is not forwarded; the later
\* lines trigger one forward each, tagged with that UUID, in arrival order,
\* however the bytes are split across reads, so that all of them have been
\* forwarded when the connection has ended.
C22_DataLines ==
  /\ dconn.uuid # <<>> => dconn.uuid[1] = SentLines[1]
  /\ Len(dconn.forwards) <= Len(SentLines) - 1 \/ dconn.sent = <<>>
  /\ \A i \in 1..Len(dconn.forwards) :
        dconn.forwards[i] = [uuid |-> SentLines[1], data |-> SentLines[i + 1]]
  /\ DataEnded => Len(dconn.forwards) = Len(SentLines) - 1

\* A connection whose payload line holds a character of two bytes has been
\* read to its end.
C22_Witness ==
  /\ DataEnded
  /\ dconn.stream = <<>>
  /\ \E i \in 1..Len(dconn.sent) : dconn.sent[i] = LeadByte

(* ----------------------- registration properties --------------------- *)

\* C23: a successful /register on a connection gets exactly one
\* '/ack <data_port>' on that connection; data_port is the data port the
\* registration stored in the entry of its UUID and lies in the configured
\* range; the entry's name, control port, config and last-seen are those of
\* the registration.
C23_AckCarriesStoredPort ==
  \A t \in Workers :
     (pc[t] = "done" /\ IsRegistration(cmd[t]))
       => LET entry == peripherals[FirstWithUuid(peripherals, cmd[t][3])]
          IN /\ out[t].resp = << [kind |-> "ack", body |-> entry.data_port] >>
             /\ out[t].chans = << t >>
             /\ \E k \in 1..Len(ConfiguredRange) : ConfiguredRange[k] = entry.data_port
             /\ entry.name = cmd[t][2]
             /\ entry.port = IntOfText(cmd[t][4])
             /\ entry.config = <<>>
             /\ entry.last_seen = now

\* The re-registration of a UUID the registry already held, made after a
\* second peripheral was registered, has been acknowledged.
C23_Witness ==
  \E t \in Workers :
     /\ pc[t] = "done"
     /\ IsRegistration(cmd[t])
     /\ Len(peripherals) = 2
     /\ peripherals[1].uuid = cmd[t][3]
     /\ peripherals[1].last_seen = now

\* The data ports of the configured range that no live peripheral holds.
FreePorts(ps) ==
  { k \in 1..Len(ConfiguredRange) :
      \A i \in 1..Len(ps) : ps[i].data_port # ConfiguredRange[k] }

Disappears ==
  \E i \in 1..Len(peripherals) : ~HasUuid(peripherals', peripherals[i].uuid)

\* The step belongs to a registration, a discovery upsert, an operator
\* removal or a reset.
RegistryStep(steps) == \E t \in Threads : pc[t] \in steps /\ pc'[t] # pc[t]

\* C25: an entry of the registry disappears only by the operator's removal
\* or by /reset, and the registry changes only by those, a registration or
\* a discovery upsert: failed probes, malformed probe responses, route
\* commands, forwards and Synchronizer passes leave every entry as it is,
\* and nothing expires an entry.
C25_NoExpiry ==
  [][/\ Disappears => RegistryStep({ "rp_remove", "rs_clear", "rs_exec" })
     /\ peripherals' # peripherals
          => RegistryStep({ "reg", "pr", "rp_remove", "rs_clear", "rs_exec" })]_vars

\* A probe of a registered peripheral's port has failed.
C25_Witness ==
  /\ pc[Scanner] = "done"
  /\ out[Scanner].logs = << "connect_error" >>
  /\ \E i \in 1..Len(peripherals) : peripherals[i].port = loc[Scanner].dport

(* ------------------------- discovery properties ----------------------- *)

\* A probe response with fewer than 3 lines, or whose second line is not a
\* well-shaped UUID.
Malformed(lines) ==
  /\ lines # <<>>
  /\ Len(lines) < 3 \/ lines[2] \notin WellShapedUuids

\* C26: a discovery response with fewer than 3 lines, or with a second line
\* that is not a 36-character string of hex digits and dashes, is discarded
\* as a whole: while it is processed the registry in memory and on disk
\* does not change and no state-changed signal is raised.
C26_MalformedDiscarded ==
  [][(/\ pc[Scanner] \in { "pr", "cp_except" }
      /\ Malformed(loc[Scanner].rows)
      /\ pc'[Scanner] # pc[Scanner])
     => /\ peripherals' = peripherals
        /\ cfgFile' = cfgFile
        /\ ~out'[Scanner].signal]_vars

\* A response of two lines has been processed to its end.
C26_Witness ==
  /\ pc[Scanner] = "done"
  /\ Len(loc[Scanner].rows) = 2

(* ------------------------- validation properties ---------------------- *)

\* A /register line with three arguments and an integer port whose UUID
\* argument is not of the UUID shape.
BadUuidRegistration(c) == IsRegistration(c) /\ c[3] \notin WellShapedUuids

\* C27: a /register whose UUID argument is malformed is rejected with a
\* descriptive response, and while it is processed the registry does not
\* change, in memory or on disk.
C27_BadUuidRejected ==
  [][\A t \in Workers :
       /\ (pc[t] = "idle" /\ BadUuidRegistration(cmd'[t]))
            => /\ pc'[t] = "done"
               /\ Len(out'[t].resp) = 1
               /\ out'[t].resp[1].kind = "text"
       /\ (BadUuidRegistration(cmd[t]) /\ pc'[t] # pc[t])
            => peripherals' = peripherals /\ cfgFile' = cfgFile]_vars

\* '/register C not-a-uuid 71' has been processed to its end.
C27_Witness ==
  \E t \in Workers : pc[t] = "done" /\ BadUuidRegistration(cmd[t])

\* C28: in every reachable state no two routes of the route table, in memory
\* or in routes.cf, have the same name, whatever the interleaving of
\* '/routes add', '/routes remove', forwards that reload the table and
\* Synchronizer passes.
NamesUnique(rs) ==
  \A i, j \in 1..Len(rs) : rs[i].name = rs[j].name => i = j

C28_RouteNamesUnique ==
  /\ NamesUnique(routes)
  /\ routesFile.exists => NamesUnique(PersistedRoutes)

\* Two workers are inside '/routes add' for the same name at once, one of
\* them already past its append, and the table holds that name once.
C28_Witness ==
  /\ \A t \in Workers : IsRoutesAdd(cmd[t]) /\ cmd[t][3] = <<"R", "2">>
  /\ pc["w1"] \in { "wr", "ar_ok", "done" }
  /\ pc["w2"] \in { "ar_lookup", "ar_add" }
  /\ HasRoute(routes, <<"R", "2">>)

\* The operator's removal menu takes a step.
RemovalStep ==
  /\ cmd[Operator] = << <<"menu">>, <<"remove_peripheral">> >>
  /\ pc'[Operator] # pc[Operator]

\* The route at position k refers to a uuid that no registry entry has.
Dangling(k) ==
  \/ ~HasUuid(peripherals, routes[k].incoming)
  \/ ~HasUuid(peripherals, routes[k].outgoing)

\* C29: removing a peripheral from the registry leaves the route table, in
\* memory and in routes.cf, as it was, the routes that refer to the removed
\* peripheral included; a following '/routes info' answers with the listing
\* and gives the name 'Unknown' for an endpoint whose uuid is no longer in
\* the registry.
C29_RemovalKeepsRoutes ==
  [][/\ RemovalStep => routes' = routes /\ routesFile' = routesFile
     /\ \A t \in Workers :
          ( /\ IsRoutesInfo(cmd[t])
            /\ pc[t] # "done" /\ pc'[t] = "done"
            /\ routes # <<>> )
          => /\ Len(out'[t].resp) = 1
             /\ out'[t].resp[1].kind = "routes"
             /\ Len(out'[t].resp[1].body) = Len(routes)
             /\ \A k \in 1..Len(routes) :
                  LET row == out'[t].resp[1].body[k]
                  IN /\ row.name = routes[k].name
                     /\ row.incoming = routes[k].incoming
                     /\ row.outgoing = routes[k].outgoing
                     /\ ~HasUuid(peripherals, routes[k].incoming)
                          => row.from = <<"Unknown">>
                     /\ ~HasUuid(peripherals, routes[k].outgoing)
                          => row.to = <<"Unknown">>]_vars

\* '/routes info' has answered while a route refers to a peripheral that is
\* no longer registered and another peripheral still is.
C29_Witness ==
  \E t \in Workers :
    /\ pc[t] = "done"
    /\ IsRoutesInfo(cmd[t])
    /\ peripherals # <<>>
    /\ \E k \in 1..Len(routes) : Dangling(k)
    /\ Len(out[t].resp) = 1
    /\ out[t].resp[1].kind = "routes"
    /\ \E k \in 1..Len(out[t].resp[1].body) :
         out[t].resp[1].body[k].from = <<"Unknown">>

\* The removal has just emptied the registry entry a route refers to.
C29_WitnessRemoved ==
  /\ pc[Operator] = "rp_ok"
  /\ \E k \in 1..Len(routes) : Dangling(k)

AllIdle == \A t \in Threads : pc[t] = "idle"

\* C31: whenever every thread is idle between operations, orch.cf holds the
\* registry that is in memory and routes.cf holds the route table that is in
\* memory.
C31_FilesMatchMemory ==
  AllIdle => /\ cfgFile = FileOf(JsonDumpPeripherals(peripherals))
             /\ routesFile = FileOf(JsonDumpRoutes(routes))

\* The registry half of C31 alone.
C31_RegistryFileMatches ==
  AllIdle => cfgFile = FileOf(JsonDumpPeripherals(peripherals))

\* The thread that takes the step.
Mover(t) == pc'[t] # pc[t]

\* C32: every step that changes the route table in memory, the last-used
\* stamp of a forward and the replacement of the table on reload included,
\* is taken by a thread that has routes_lock or takes it for the step: no
\* such step happens while another thread holds the lock.
C32_RouteMutationsLocked ==
  [][routes' # routes
       => \E t \in Threads : Mover(t) /\ rLock \in { Free, t }]_vars

\* The reload half of C32: a forward replaces the table only when the lock
\* is free for it to take.
C32_ReloadLocked ==
  [][\A t \in Threads : (pc[t] = "hid" /\ Mover(t)) => rLock = Free]_vars

\* The forward of thread t waits for routes_lock inside read_routes'
\* write_routes while the lock is the one t took before calling read_routes.
SelfBlocked(t) == InForward(t) /\ pc[t] = "wr" /\ rLock = t

\* C33: a forward always returns; in particular it is never left waiting for
\* routes_lock while holding that lock itself, a wait that no step of the
\* process can end, also when routes.cf does not exist at the time of the
\* call.
C33_ForwardReturns == \A t \in Workers : ~SelfBlocked(t)

\* A forward whose reload found routes.cf in place never waits on itself.
C33_ReturnsWhenFileExists ==
  [][\A t \in Workers :
       (pc[t] = "hid" /\ Mover(t) /\ routesFile.exists) => ~SelfBlocked(t)']_vars

\* The data connection's worker leaves its loop.
WorkerEnds == dconn.open /\ ~dconn'.open

\* C34: a connection worker never ends because a receive timed out (it goes
\* back to the read), and it ends only when the peer has closed the
\* connection or an I/O error has occurred.
C34_EndsOnlyOnCloseOrError ==
  [][/\ data_timeout => dconn'.open /\ pc' = pc
     /\ WorkerEnds => data_eof \/ data_io_error]_vars

\* The timeout part of C34 alone.
C34_TimeoutRetries == [][data_timeout => dconn'.open /\ pc' = pc]_vars

\* The last part of C34: once the peer has closed, the worker ends.
C34_ClosedEnds == (dconn.open /\ dconn.closed) ~> ~dconn.open

\* The worker has ended on bytes that did not decode, with the peer's end
\* still open.
C34_EndedOnDecode == ~(~dconn.open /\ dconn.last = "decode" /\ ~dconn.closed)

(* ------------------------ periodic loop properties ------------------- *)

SyncPassEnds == pc[Syncer] = "sync" /\ pc'[Syncer] = "idle"

\* C36: a Synchronizer pass leaves the registry, in memory and in orch.cf,
\* and the route table in memory as they are; in routes.cf it keeps every
\* route with its name, uuids and last-used, changes a port only where the
\* route's uuid is in the registry of orch.cf, and writes nothing when the
\* ports of routes.cf already agree with that registry (as they do after a
\* pass).
C36_PassChangesPortsOnly ==
  [][SyncPassEnds =>
       /\ peripherals' = peripherals /\ cfgFile' = cfgFile /\ routes' = routes
       /\ routesFile'.exists = routesFile.exists
       /\ Len(PersistedRoutes') = Len(PersistedRoutes)
       /\ \A k \in 1..Len(PersistedRoutes) :
            LET old == PersistedRoutes[k]
                new == PersistedRoutes'[k]
            IN /\ new.name = old.name
               /\ new.incoming = old.incoming
               /\ new.outgoing = old.outgoing
               /\ new.last_used = old.last_used
               /\ ~HasUuid(PersistedRegistry, old.incoming)
                    => new.incoming_port = old.incoming_port
               /\ ~HasUuid(PersistedRegistry, old.outgoing)
                    => new.outgoing_port = old.outgoing_port
       /\ PortsAgree(PersistedRoutes, PersistedRegistry)
            => routesFile' = routesFile]_vars

\* A pass has repaired the port of one route of routes.cf, next to a route
\* whose peripheral is not in the registry.
C36_Witness ==
  /\ \A t \in Threads : pc[t] = "idle"
  /\ PortsAgree(PersistedRoutes, PersistedRegistry)
  /\ \E k \in 1..Len(PersistedRoutes), m \in 1..Len(routes) :
       /\ routes[m].name = PersistedRoutes[k].name
       /\ routes[m].incoming_port # PersistedRoutes[k].incoming_port
  /\ \E k \in 1..Len(PersistedRoutes) :
       ~HasUuid(PersistedRegistry, PersistedRoutes[k].incoming)

(* ------------------------ acknowledged commands ---------------------- *)

\* The command of thread t has been answered with this message.
Acked(t, message) == pc[t] = "done" /\ out[t].resp = << TextReply(message) >>

\* C37: when '/routes add R' is answered 'Route added successfully.', R is
\* in the table in memory and in routes.cf (nobody removes it meanwhile), and
\* when '/routes remove R' is answered 'Route removed successfully.', R is in
\* neither (nobody adds it meanwhile), whatever forwards and Synchronizer
\* passes run next to the command.
C37_AckedRouteCommandKept ==
  \A t \in Workers :
    /\ (IsRoutesAdd(cmd[t]) /\ cmd[t][3] = <<"R", "3">>
        /\ Acked(t, "Route added successfully."))
       => HasRoute(routes, cmd[t][3]) /\ HasRoute(PersistedRoutes, cmd[t][3])
    /\ (IsRoutesRemove(cmd[t]) /\ Acked(t, "Route removed successfully."))
       => ~HasRoute(routes, cmd[t][3]) /\ ~HasRoute(PersistedRoutes, cmd[t][3])

\* C38: a persist of the route table by a command or a forward, made when
\* every route of routes.cf caches the port orch.cf holds for its source and
\* destination (as after a Synchronizer pass), leaves routes.cf in that
\* state: it writes no port back that the registry no longer holds.
C38_PersistKeepsRepairedPorts ==
  [][\A t \in Workers :
       (pc[t] = "wr" /\ Mover(t)
        /\ PortsAgree(PersistedRoutes, PersistedRegistry))
       => PortsAgree(PersistedRoutes', PersistedRegistry')]_vars

\* The same for the persist that follows a forward's reload and stamp.
C38_StampKeepsRepairedPorts ==
  [][\A t \in Workers :
       (pc[t] = "wr" /\ Mover(t) /\ InForward(t)
        /\ PortsAgree(PersistedRoutes, PersistedRegistry))
       => PortsAgree(PersistedRoutes', PersistedRegistry')]_vars

(* --------------------------- re-registration -------------------------- *)

\* Thread t takes the step of register_peripheral for a UUID the registry
\* already holds.
ReRegisters(t) ==
  /\ pc[t] = "reg" /\ Mover(t)
  /\ HasUuid(peripherals, cmd[t][3])

\* C39: the registration of an already registered UUID leaves the number of
\* registry entries as it is and leaves the entry's data port as it is,
\* whatever the size of the registry.
C39_ReRegisterKeepsDataPort ==
  [][\A t \in Workers :
       ReRegisters(t)
       => LET i == FirstWithUuid(peripherals, cmd[t][3])
          IN /\ Len(peripherals') = Len(peripherals)
             /\ peripherals'[i].data_port = peripherals[i].data_port]_vars

\* C39 as amended: the registration of an already registered UUID leaves the
\* number of registry entries as it is and gives the entry the data port of
\* the configured range at index (registry size mod range length).
C39_ReRegisterReallocates ==
  [][\A t \in Workers :
       ReRegisters(t)
       => LET i == FirstWithUuid(peripherals, cmd[t][3])
              k == (Len(peripherals) % Len(ConfiguredRange)) + 1
          IN /\ Len(peripherals') = Len(peripherals)
             /\ peripherals'[i].data_port = ConfiguredRange[k]]_vars

\* A re-registration has been acknowledged: the registry's only entry holds
\* the second port of the range, which a first registration into the empty
\* registry does not give.
C39_Witness ==
  \E t \in Workers :
     /\ pc[t] = "done"
     /\ IsRegistration(cmd[t])
     /\ Len(peripherals) = 1
     /\ peripherals[1].uuid = cmd[t][3]
     /\ peripherals[1].last_seen = now
     /\ peripherals[1].data_port = ConfiguredRange[2]

(* ------------------------ discovery of known uuids -------------------- *)

\* C40: a well-formed discovery response whose uuid is in the registry
\* gives that entry the time of the response as last-seen and the response's
\* config lines as config, leaves the entry's name and data port as they
\* were, and leaves every other entry as it was.
C40_KnownUuidUpdateFrame ==
  [][LET lines == loc[Scanner].rows
     IN (ResponseHandled /\ WellFormedResponse(lines) /\ HasUuid(peripherals, lines[2]))
        => /\ Len(peripherals') = Len(peripherals)
           /\ \A i \in 1..Len(peripherals) :
                IF peripherals[i].uuid = lines[2]
                THEN /\ peripherals'[i].last_seen > peripherals[i].last_seen
                     /\ peripherals'[i].config = SubSeq(lines, 3, Len(lines))
                     /\ peripherals'[i].name = peripherals[i].name
                     /\ peripherals'[i].data_port = peripherals[i].data_port
                ELSE peripherals'[i] = peripherals[i]]_vars

\* The frame alone: name and data port of the entry and all other entries
\* are left as they were.
C40_NameAndDataPortKept ==
  [][LET lines == loc[Scanner].rows
     IN (ResponseHandled /\ WellFormedResponse(lines) /\ HasUuid(peripherals, lines[2]))
        => /\ Len(peripherals') = Len(peripherals)
           /\ \A i \in 1..Len(peripherals) :
                IF peripherals[i].uuid = lines[2]
                THEN /\ peripherals'[i].name = peripherals[i].name
                     /\ peripherals'[i].data_port = peripherals[i].data_port
                ELSE peripherals'[i] = peripherals[i]]_vars

====
